---- MODULE Spec2Model ----
(***************************************************************************)
(* Ledger Event Reconciliation Pipeline of the creator-tipping backend:    *)
(* the indexer poller (listener_service._listener_loop), the payload       *)
(* decoder (parse_tip_log), the event router (route_tip), the reward       *)
(* ledgers (butki / bauni / shawty / merch services) and the retry sweeper *)
(* (_retry_failed_mints), over the relational store of db_models.py.       *)
(*                                                                         *)
(* Amounts are integers in microAlgos; times are integers in days.         *)
(* Text (memos) is a sequence of one-character strings.                    *)
(***************************************************************************)
EXTENDS Integers, Sequences, FiniteSets, TLC

\* ------------------------------------------------------------------------
\* Program constants
\* ------------------------------------------------------------------------
BUTKI_MIN_TIP_MICRO == 500000
BUTKI_BADGE_INTERVAL == 5
BAUNI_COST_MICRO == 5000000
BAUNI_VALIDITY_DAYS == 30
SHAWTY_COST_MICRO == 2000000
MAX_RETRY_ATTEMPTS == 3
RETRY_BATCH_LIMIT == 10
MIN_LOG_LEN == 40
ADDR_LEN == 32
ERROR_BACKOFF_THRESHOLD == 5

None == "None"

\* ------------------------------------------------------------------------
\* Text helpers: Python str operations used by the router and the sweeper
\* ------------------------------------------------------------------------
LowerChars == <<"a","b","c","d","e","f","g","h","i","j","k","l","m",
                "n","o","p","q","r","s","t","u","v","w","x","y","z">>
UpperChars == <<"A","B","C","D","E","F","G","H","I","J","K","L","M",
                "N","O","P","Q","R","S","T","U","V","W","X","Y","Z">>
DigitChars == <<"0","1","2","3","4","5","6","7","8","9">>

\* str.strip() and str.split() treat these as white space
IsSpace(c) == c \in {" ", "\t", "\n"}

IsDigit(c) == \E i \in 1..10 : DigitChars[i] = c

DigitVal(c) == (CHOOSE i \in 1..10 : DigitChars[i] = c) - 1

\* str.upper() on one character
UpperChar(c) ==
    IF \E i \in 1..26 : LowerChars[i] = c
    THEN UpperChars[CHOOSE i \in 1..26 : LowerChars[i] = c]
    ELSE c

\* a match that keeps the letter case
KeepCase(s) == s

\* str.upper()
Upper(s) == [i \in 1..Len(s) |-> UpperChar(s[i])]

RECURSIVE LStrip(_)
LStrip(s) == IF s # <<>> /\ IsSpace(Head(s)) THEN LStrip(Tail(s)) ELSE s

RECURSIVE RStrip(_)
RStrip(s) ==
    IF s # <<>> /\ IsSpace(s[Len(s)]) THEN RStrip(SubSeq(s, 1, Len(s) - 1)) ELSE s

\* str.strip()
Strip(s) == RStrip(LStrip(s))

\* str.startswith(p)
StartsWith(s, p) == Len(s) >= Len(p) /\ SubSeq(s, 1, Len(p)) = p

\* positions at which pattern p occurs in s
Occurs(s, p, i) == i >= 1 /\ i + Len(p) - 1 <= Len(s) /\ SubSeq(s, i, i + Len(p) - 1) = p

\* "p in s"
Contains(s, p) == \E i \in 1..Len(s) : Occurs(s, p, i)

\* index of the first occurrence of p in s at or after position from (0 if none)
FirstOcc(s, p, from) ==
    IF \E i \in from..Len(s) : Occurs(s, p, i)
    THEN CHOOSE i \in from..Len(s) :
            Occurs(s, p, i) /\ \A j \in from..(i - 1) : ~Occurs(s, p, j)
    ELSE 0

\* s.split(p): the list of pieces between non-overlapping occurrences, left to right
RECURSIVE SplitOn(_, _)
SplitOn(s, p) ==
    LET k == FirstOcc(s, p, 1) IN
    IF k = 0 THEN <<s>>
    ELSE <<SubSeq(s, 1, k - 1)>> \o SplitOn(SubSeq(s, k + Len(p), Len(s)), p)

\* s.split(): whitespace-separated tokens, empty tokens dropped
RECURSIVE SplitWs(_)
SplitWs(s) ==
    LET t == LStrip(s) IN
    IF t = <<>> THEN <<>>
    ELSE LET k == FirstOcc(t, <<" ">>, 1) IN
         IF k = 0 THEN <<t>>
         ELSE <<SubSeq(t, 1, k - 1)>> \o SplitWs(SubSeq(t, k, Len(t)))

\* digits with single underscores between digits, as int() accepts them
RECURSIVE DigitsOk(_, _)
DigitsOk(s, prevDigit) ==
    IF s = <<>> THEN prevDigit
    ELSE IF IsDigit(Head(s)) THEN DigitsOk(Tail(s), TRUE)
    ELSE IF Head(s) = "_" THEN prevDigit /\ Tail(s) # <<>> /\ IsDigit(Head(Tail(s)))
                                /\ DigitsOk(Tail(s), FALSE)
    ELSE FALSE

RECURSIVE DigitsVal(_, _)
DigitsVal(s, acc) ==
    IF s = <<>> THEN acc
    ELSE IF Head(s) = "_" THEN DigitsVal(Tail(s), acc)
    ELSE DigitsVal(Tail(s), acc * 10 + DigitVal(Head(s)))

\* int(s): [ok |-> FALSE] stands for ValueError
ParseInt(s) ==
    LET t == Strip(s)
        signed == t # <<>> /\ Head(t) \in {"-", "+"}
        body == IF signed THEN Tail(t) ELSE t
    IN IF body # <<>> /\ DigitsOk(body, FALSE)
       THEN [ok |-> TRUE,
             val |-> IF signed /\ Head(t) = "-" THEN 0 - DigitsVal(body, 0)
                     ELSE DigitsVal(body, 0)]
       ELSE [ok |-> FALSE, val |-> 0]

RECURSIVE NatToStr(_)
NatToStr(n) ==
    IF n < 10 THEN <<DigitChars[n + 1]>>
    ELSE NatToStr(n \div 10) \o <<DigitChars[(n % 10) + 1]>>

\* str(n) for an int
IntToStr(n) == IF n < 0 THEN <<"-">> \o NatToStr(0 - n) ELSE NatToStr(n)

MEMO_ORDER_PREFIX == <<"O","R","D","E","R",":">>
MEMO_BAUNI_PREFIX == <<"M","E","M","B","E","R","S","H","I","P",":","B","A","U","N","I">>
MEMO_SHAWTY_PREFIX == <<"P","U","R","C","H","A","S","E",":","S","H","A","W","T","Y">>
RETRY_MARK == <<"_","_","R","E","T","R","Y",":">>


\* ------------------------------------------------------------------------
\* The relational store (db_models.py) as one record of tables
\* ------------------------------------------------------------------------
\* txs          Transaction rows by tx_id (unique)
\* journal      LoyaltyTipEvent rows (tx unique)
\* loyalty      FanLoyalty rows by <<fan, creator>> (unique pair)
\* memberships  Membership rows
\* tokens       ShawtyToken rows
\* nfts         NFT rows
\* redemptions  Redemption rows
\* orders       Order rows by id, each with its OrderItem rows
\* products     Product rows by id
\* rules        DiscountRule rows
\* templates    StickerTemplate rows that carry a metadata_url
\* contracts    Contract rows, in table order

EmptyFn == [x \in {} |-> 0]

EmptyDb ==
    [txs |-> EmptyFn, journal |-> {}, loyalty |-> EmptyFn, memberships |-> {},
     tokens |-> {}, nfts |-> {}, redemptions |-> {}, orders |-> EmptyFn,
     products |-> EmptyFn, rules |-> {}, templates |-> {}, contracts |-> <<>>]

\* The reward-ledger part of the store: everything but the Payment Records
Ledger(d) ==
    [journal |-> d.journal, loyalty |-> d.loyalty, memberships |-> d.memberships,
     tokens |-> d.tokens, nfts |-> d.nfts, redemptions |-> d.redemptions,
     orders |-> d.orders, products |-> d.products]

SetMax(S) == CHOOSE x \in S : \A y \in S : y <= x

\* a Membership table without its UNIQUE constraints
NoConstraint(rows) == TRUE

\* uq_membership_fan_creator_active and uq_membership_asset_id
MembershipConstraintOk(rows) ==
    \A m1, m2 \in rows :
        m1 # m2 =>
            /\ ~(m1.fan = m2.fan /\ m1.creator = m2.creator /\ m1.active = m2.active)
            /\ m1.asset # m2.asset

\* A unit-of-work flush emits the UPDATEs of a table before its INSERTs; SQLite
\* checks a UNIQUE constraint statement by statement.
FlushRaises(afterUpdates, afterInserts) ==
    ~MembershipConstraintOk(afterUpdates) \/ ~MembershipConstraintOk(afterInserts)

\* ------------------------------------------------------------------------
\* butki_service
\* ------------------------------------------------------------------------
LoyaltyRow(d, fan, creator) == d.loyalty[<<fan, creator>>]

HasLoyalty(d, fan, creator) == <<fan, creator>> \in DOMAIN d.loyalty

\* a CASE expression that tests the count before the increment
BadgeIncrementStale(tip_count) ==
    IF tip_count > 0 /\ tip_count % BUTKI_BADGE_INTERVAL = 0 THEN 1 ELSE 0

\* the CASE expression of the atomic UPDATE
BadgeIncrement(tip_count) ==
    IF (tip_count + 1) % BUTKI_BADGE_INTERVAL = 0 THEN 1 ELSE 0

\* earned_badge as computed from the reloaded row
EarnedBadge(tip_count) == tip_count % BUTKI_BADGE_INTERVAL = 0

\* a journal insert that never reports a conflict
JournalNeverConflicts(d, tx) == FALSE

\* INSERT ... ON CONFLICT DO NOTHING into loyalty_tip_events: rowcount = 0 on conflict
JournalConflict(d, tx) == \E j \in d.journal : j.tx = tx

record_tip(d, fan, creator, tx, amount) ==
    IF amount < BUTKI_MIN_TIP_MICRO
    THEN [db |-> d, tip_count |-> 0, earned_badge |-> FALSE, badges_total |-> 0,
          applied |-> FALSE]
    ELSE IF JournalConflict(d, tx)
    THEN IF ~HasLoyalty(d, fan, creator)
         THEN [db |-> d, tip_count |-> 0, earned_badge |-> FALSE, badges_total |-> 0,
               applied |-> FALSE]
         ELSE [db |-> d, tip_count |-> LoyaltyRow(d, fan, creator).tip_count,
               earned_badge |-> FALSE,
               badges_total |-> LoyaltyRow(d, fan, creator).badges,
               applied |-> FALSE]
    ELSE
      LET j == [tx |-> tx, fan |-> fan, creator |-> creator, amount |-> amount]
          old == IF HasLoyalty(d, fan, creator) THEN LoyaltyRow(d, fan, creator)
                 ELSE [tip_count |-> 0, total |-> 0, badges |-> 0, last_badge |-> 0]
          new == [old EXCEPT !.tip_count = old.tip_count + 1,
                             !.total = old.total + amount,
                             !.badges = old.badges + BadgeIncrement(old.tip_count)]
          d2 == [d EXCEPT !.journal = d.journal \cup {j},
                          !.loyalty = (<<fan, creator>> :> new) @@ d.loyalty]
      IN [db |-> d2, tip_count |-> new.tip_count,
          earned_badge |-> EarnedBadge(new.tip_count),
          badges_total |-> new.badges, applied |-> TRUE]

record_badge_asset(d, fan, creator, asset) ==
    IF HasLoyalty(d, fan, creator)
    THEN [d EXCEPT !.loyalty[<<fan, creator>>].last_badge = asset]
    ELSE d

\* ------------------------------------------------------------------------
\* bauni_service
\* ------------------------------------------------------------------------
NextMembershipId(d) ==
    IF d.memberships = {} THEN 1 ELSE SetMax({m.id : m \in d.memberships}) + 1

\* the SELECT of purchase_membership: active rows of the pair that expire after now,
\* newest expiry first
ActiveUnexpired(d, fan, creator, now) ==
    {m \in d.memberships :
        m.fan = fan /\ m.creator = creator /\ m.active /\ m.expires_at > now}

FirstByExpiryDesc(rows) ==
    CHOOSE m \in rows :
        \A o \in rows :
            o.expires_at < m.expires_at \/ (o.expires_at = m.expires_at /\ o.id >= m.id)

\* Result: the store with the session's pending rows applied, and bad = the flush
\* of those rows raises IntegrityError.
purchase_membership(d, fan, creator, asset, ptx, now) ==
    LET cands == ActiveUnexpired(d, fan, creator, now) IN
    IF cands # {}
    THEN LET existing == FirstByExpiryDesc(cands)
             new_expiry == existing.expires_at + BAUNI_VALIDITY_DAYS
             upd == (d.memberships \ {existing})
                        \cup {[existing EXCEPT !.active = FALSE]}
             ins == upd \cup {[id |-> NextMembershipId(d), fan |-> fan,
                               creator |-> creator, asset |-> asset,
                               expires_at |-> new_expiry, active |-> TRUE, ptx |-> ptx]}
         IN [db |-> [d EXCEPT !.memberships = ins], bad |-> FlushRaises(upd, ins),
             is_renewal |-> TRUE, expires_at |-> new_expiry]
    ELSE LET expires_at == now + BAUNI_VALIDITY_DAYS
             ins == d.memberships \cup {[id |-> NextMembershipId(d), fan |-> fan,
                               creator |-> creator, asset |-> asset,
                               expires_at |-> expires_at, active |-> TRUE, ptx |-> ptx]}
         IN [db |-> [d EXCEPT !.memberships = ins],
             bad |-> FlushRaises(d.memberships, ins),
             is_renewal |-> FALSE, expires_at |-> expires_at]

verify_membership(d, fan, creator, now) ==
    LET rows == {m \in d.memberships : m.fan = fan /\ m.creator = creator /\ m.active} IN
    IF rows = {} THEN [db |-> d, bad |-> FALSE, is_valid |-> FALSE]
    ELSE LET m == FirstByExpiryDesc(rows) IN
         IF m.expires_at <= now
         THEN LET upd == (d.memberships \ {m}) \cup {[m EXCEPT !.active = FALSE]}
              IN [db |-> [d EXCEPT !.memberships = upd], bad |-> FlushRaises(upd, upd),
                  is_valid |-> FALSE]
         ELSE [db |-> d, bad |-> FALSE, is_valid |-> TRUE]

expire_memberships(d, now) ==
    LET expired == {m \in d.memberships : m.active /\ m.expires_at <= now}
        upd == (d.memberships \ expired) \cup {[m EXCEPT !.active = FALSE] : m \in expired}
    IN [db |-> [d EXCEPT !.memberships = upd], bad |-> FlushRaises(upd, upd),
        count |-> Cardinality(expired)]


\* ------------------------------------------------------------------------
\* shawty_service
\* ------------------------------------------------------------------------
register_purchase(d, asset, owner, creator, ptx) ==
    IF \E t \in d.tokens : t.ptx = ptx THEN d
    ELSE [d EXCEPT !.tokens = d.tokens \cup
            {[asset |-> asset, owner |-> owner, creator |-> creator, ptx |-> ptx,
              burned |-> FALSE, locked |-> FALSE]}]

\* _get_valid_token: the row when it exists, is owned by fan, unburned and unlocked
ValidTokens(d, asset, fan) ==
    {t \in d.tokens : t.asset = asset /\ t.owner = fan /\ ~t.burned /\ ~t.locked}

lock_for_discount(d, asset, fan) ==
    IF ValidTokens(d, asset, fan) = {} THEN [db |-> d, success |-> FALSE]
    ELSE LET t == CHOOSE t \in ValidTokens(d, asset, fan) : TRUE IN
         [db |-> [d EXCEPT !.tokens = (d.tokens \ {t}) \cup {[t EXCEPT !.locked = TRUE]},
                           !.redemptions = d.redemptions \cup
                               {[asset |-> asset, fan |-> fan, kind |-> "lock_discount"]}],
          success |-> TRUE]

burn_for_merch(d, asset, fan) ==
    IF ValidTokens(d, asset, fan) = {} THEN [db |-> d, success |-> FALSE]
    ELSE LET t == CHOOSE t \in ValidTokens(d, asset, fan) : TRUE IN
         [db |-> [d EXCEPT !.tokens = (d.tokens \ {t}) \cup {[t EXCEPT !.burned = TRUE]},
                           !.redemptions = d.redemptions \cup
                               {[asset |-> asset, fan |-> fan, kind |-> "burn_merch"]}],
          success |-> TRUE]

transfer_ownership(d, asset, from, to) ==
    IF ValidTokens(d, asset, from) = {} THEN [db |-> d, success |-> FALSE]
    ELSE LET t == CHOOSE t \in ValidTokens(d, asset, from) : TRUE IN
         [db |-> [d EXCEPT !.tokens = (d.tokens \ {t}) \cup {[t EXCEPT !.owner = to]}],
          success |-> TRUE]

\* ------------------------------------------------------------------------
\* merch_service.settle_order_payment
\* ------------------------------------------------------------------------
\* "Adjust inventory": one OrderItem after the other
RECURSIVE AdjustInventory(_, _)
AdjustInventory(products, items) ==
    IF items = <<>> THEN products
    ELSE LET it == Head(items) IN
         IF it.product \in DOMAIN products
            /\ products[it.product].tracked
            /\ products[it.product].stock >= it.quantity
         THEN AdjustInventory(
                [products EXCEPT ![it.product].stock = products[it.product].stock - it.quantity],
                Tail(items))
         ELSE AdjustInventory(products, Tail(items))

\* "Consume Shawty tokens used for discount by locking them"
RECURSIVE LockAll(_, _, _)
LockAll(d, assets, fan) ==
    IF assets = <<>> THEN d
    ELSE LockAll(lock_for_discount(d, Head(assets), fan).db, Tail(assets), fan)

\* amount_algo + 1e-6 < order.total_algo, in microAlgos
AmountTooLow(amount, total) == amount + 1 < total

\* a settlement that skips the status check
PayableAlways(order) == FALSE

\* "if order.status != 'PENDING_PAYMENT'"
NotPayable(order) == order.status # "PENDING_PAYMENT"

settle_order_payment(d, order_id, fan, creator, amount, tx) ==
    IF order_id \notin DOMAIN d.orders
       \/ d.orders[order_id].fan # fan
       \/ d.orders[order_id].creator # creator
    THEN [db |-> d, settled |-> FALSE]
    ELSE LET order == d.orders[order_id] IN
         IF NotPayable(order) THEN [db |-> d, settled |-> FALSE]
         ELSE IF AmountTooLow(amount, order.total) THEN [db |-> d, settled |-> FALSE]
         ELSE LET d1 == [d EXCEPT !.orders[order_id].status = "PAID",
                                  !.orders[order_id].tx = tx,
                                  !.products = AdjustInventory(d.products, order.items)]
              IN [db |-> LockAll(d1, order.tokens, fan), settled |-> TRUE]

\* ------------------------------------------------------------------------
\* merch_service.build_quote, merch_service.create_order
\* ------------------------------------------------------------------------
\* shawty_service.validate_ownership: is_valid
validate_ownership(d, asset, fan) ==
    \E t \in d.tokens : t.asset = asset /\ t.owner = fan /\ ~t.burned /\ ~t.locked

\* the cart lines one after the other: acc.ok turns FALSE at the first line that
\* is refused, else the line is priced and added to the subtotal
RECURSIVE QuoteItems(_, _, _, _)
QuoteItems(d, creator, items, acc) ==
    IF items = <<>> THEN acc
    ELSE LET i == Head(items) IN
         IF i.quantity <= 0 THEN [acc EXCEPT !.ok = FALSE]
         ELSE IF \/ i.product \notin DOMAIN d.products
                 \/ d.products[i.product].creator # creator
                 \/ ~d.products[i.product].active
              THEN [acc EXCEPT !.ok = FALSE]
         ELSE LET p == d.products[i.product] IN
              IF p.tracked /\ i.quantity > p.stock THEN [acc EXCEPT !.ok = FALSE]
              ELSE IF i.quantity > p.max_per_order THEN [acc EXCEPT !.ok = FALSE]
              ELSE QuoteItems(d, creator, Tail(items),
                       [ok |-> TRUE, subtotal |-> acc.subtotal + p.price * i.quantity,
                        items |-> Append(acc.items,
                                         [product |-> i.product, quantity |-> i.quantity])])

\* the discount one rule gives: a percentage of the subtotal or a fixed amount
RuleDiscount(r, subtotal) ==
    IF r.kind = "PERCENT"
    THEN (subtotal * (IF r.value > 0 THEN r.value ELSE 0)) \div 100
    ELSE IF r.kind = "FIXED_ALGO" THEN (IF r.value > 0 THEN r.value ELSE 0)
    ELSE 0

\* the creator's active rules that the request qualifies for
MatchingRules(d, creator, n_tokens, require_membership) ==
    {r \in d.rules : /\ r.creator = creator /\ r.active
                     /\ ~(r.requires_bauni /\ ~require_membership)
                     /\ n_tokens >= r.min_shawty_tokens}

QuoteFailed == [success |-> FALSE]

build_quote(d, fan, creator, items, assets, require_membership, t) ==
    IF items = <<>> THEN QuoteFailed
    ELSE IF require_membership /\ ~verify_membership(d, fan, creator, t).is_valid
    THEN QuoteFailed
    ELSE LET q == QuoteItems(d, creator, items,
                             [ok |-> TRUE, subtotal |-> 0, items |-> <<>>]) IN
         IF ~q.ok THEN QuoteFailed
         ELSE IF \E k \in DOMAIN assets : ~validate_ownership(d, assets[k], fan)
         THEN QuoteFailed
         ELSE LET best == SetMax({0} \cup
                            {RuleDiscount(r, q.subtotal) :
                                r \in MatchingRules(d, creator, Len(assets),
                                                    require_membership)})
                  discount == IF best < q.subtotal THEN best ELSE q.subtotal
              IN [success |-> TRUE, subtotal |-> q.subtotal, discount |-> discount,
                  total |-> q.subtotal - discount, items |-> q.items,
                  tokens |-> assets]

\* the autoincrement id of the next Order row
NextOrderId(d) == SetMax({0} \cup DOMAIN d.orders) + 1

create_order(d, fan, creator, quote) ==
    [d EXCEPT !.orders = d.orders @@
        (NextOrderId(d) :>
            [fan |-> fan, creator |-> creator, status |-> "PENDING_PAYMENT",
             subtotal |-> quote.subtotal, discount |-> quote.discount,
             total |-> quote.total, tokens |-> quote.tokens, tx |-> None,
             items |-> quote.items])]


\* ------------------------------------------------------------------------
\* listener_service.route_tip
\* ------------------------------------------------------------------------
\* ext is what the issuance service answers for this call of the router:
\*   ext.mint     "ok" | "transient" | "permanent"  (issue succeeds, or raises an
\*                error whose text _is_transient_error classifies that way)
\*   ext.deliver  "delivered" (the transfer's status) | "failed" (the transfer raised)
\*   ext.asset    the asset id the chain assigns to a successful issue
\* Result: db = the session's view after the call, raised = the call raised,
\* transient = classification of the raised error, bad = the session holds pending
\* rows whose flush raises IntegrityError, minted = an asset was issued.
HasTemplate(d, creator, category) ==
    \E t \in d.templates : t.creator = creator /\ t.category = category

Returned(d) ==
    [db |-> d, raised |-> FALSE, transient |-> FALSE, bad |-> FALSE, minted |-> FALSE]

Raised(d, ext) ==
    [db |-> d, raised |-> TRUE, transient |-> (ext.mint = "transient"), bad |-> FALSE,
     minted |-> FALSE]

NftRow(ext, owner, cls) ==
    [asset |-> ext.asset, cls |-> cls, owner |-> owner, delivery |-> ext.deliver]

\* order_id of "ORDER:<id> ...": [ok |-> FALSE] when the try block raises
ParseOrderId(memo_upper) ==
    LET pieces == SplitOn(memo_upper, MEMO_ORDER_PREFIX)
        words == SplitWs(pieces[2])
    IN IF words = <<>> THEN [ok |-> FALSE, val |-> 0] ELSE ParseInt(words[1])

\* Path 0: merch order settlement, which does not short-circuit the other paths
SettlePath(d, rec, memo_upper) ==
    IF StartsWith(memo_upper, MEMO_ORDER_PREFIX) /\ ParseOrderId(memo_upper).ok
    THEN settle_order_payment(d, ParseOrderId(memo_upper).val, rec.fan, rec.creator,
                              rec.amount, rec.tx).db
    ELSE d

\* Path 1: Bauni membership purchase
BauniPath(d, rec, now, ext) ==
    IF \E m \in d.memberships : m.ptx = rec.tx THEN Returned(d)
    ELSE IF rec.amount < BAUNI_COST_MICRO THEN Returned(d)
    ELSE IF ~HasTemplate(d, rec.creator, "bauni_membership") THEN Returned(d)
    ELSE IF ext.mint # "ok" THEN Raised(d, ext)
    ELSE LET d1 == [d EXCEPT !.nfts = d.nfts \cup {NftRow(ext, rec.fan, "bauni")}]
             r == purchase_membership(d1, rec.fan, rec.creator, ext.asset, rec.tx, now)
         IN [db |-> r.db, raised |-> FALSE, transient |-> FALSE, bad |-> r.bad,
             minted |-> TRUE]

\* Path 2: Shawty store purchase
ShawtyPath(d, rec, ext) ==
    IF \E t \in d.tokens : t.ptx = rec.tx THEN Returned(d)
    ELSE IF rec.amount < SHAWTY_COST_MICRO THEN Returned(d)
    ELSE IF ~HasTemplate(d, rec.creator, "shawty_collectible") THEN Returned(d)
    ELSE IF ext.mint # "ok" THEN Raised(d, ext)
    ELSE LET d1 == [d EXCEPT !.nfts = d.nfts \cup {NftRow(ext, rec.fan, "shawty")}]
         IN [db |-> register_purchase(d1, ext.asset, rec.fan, rec.creator, rec.tx),
             raised |-> FALSE, transient |-> FALSE, bad |-> FALSE, minted |-> TRUE]

\* Path 3: Butki loyalty tip
ButkiPath(d, rec, ext) ==
    IF rec.amount < BUTKI_MIN_TIP_MICRO THEN Returned(d)
    ELSE LET r == record_tip(d, rec.fan, rec.creator, rec.tx, rec.amount) IN
         IF ~r.earned_badge THEN Returned(r.db)
         ELSE IF ~HasTemplate(r.db, rec.creator, "butki_badge") THEN Returned(r.db)
         ELSE IF ext.mint # "ok" THEN Raised(r.db, ext)
         ELSE LET d1 == [r.db EXCEPT !.nfts = r.db.nfts \cup {NftRow(ext, rec.fan, "butki")}]
              IN [db |-> record_badge_asset(d1, rec.fan, rec.creator, ext.asset),
                  raised |-> FALSE, transient |-> FALSE, bad |-> FALSE, minted |-> TRUE]

\* a router that falls through to the loyalty path when the amount is below the
\* price of the path the memo names
RouteWithPartialCredit(d, rec, now, ext) ==
    LET memo_upper == Upper(Strip(rec.memo))
        d0 == SettlePath(d, rec, memo_upper)
    IN IF StartsWith(memo_upper, MEMO_BAUNI_PREFIX) /\ rec.amount >= BAUNI_COST_MICRO
       THEN BauniPath(d0, rec, now, ext)
       ELSE IF StartsWith(memo_upper, MEMO_SHAWTY_PREFIX) /\ rec.amount >= SHAWTY_COST_MICRO
       THEN ShawtyPath(d0, rec, ext)
       ELSE ButkiPath(d0, rec, ext)

route_tip(d, rec, now, ext) ==
    LET memo_upper == Upper(Strip(rec.memo))
        d0 == SettlePath(d, rec, memo_upper)
    IN IF StartsWith(memo_upper, MEMO_BAUNI_PREFIX) THEN BauniPath(d0, rec, now, ext)
       ELSE IF StartsWith(memo_upper, MEMO_SHAWTY_PREFIX) THEN ShawtyPath(d0, rec, ext)
       ELSE ButkiPath(d0, rec, ext)

\* ------------------------------------------------------------------------
\* Retry bookkeeping kept in the memo text
\* ------------------------------------------------------------------------
Last(q) == q[Len(q)]

_get_retry_count(memo) ==
    IF Contains(memo, RETRY_MARK)
    THEN LET n == ParseInt(Last(SplitOn(memo, RETRY_MARK))) IN
         IF n.ok THEN n.val ELSE 0
    ELSE 0

_increment_retry_count(memo) ==
    LET current == _get_retry_count(memo) IN
    IF Contains(memo, RETRY_MARK)
    THEN SplitOn(memo, RETRY_MARK)[1] \o RETRY_MARK \o IntToStr(current + 1)
    ELSE memo \o RETRY_MARK \o IntToStr(current + 1)


\* ------------------------------------------------------------------------
\* Bounds of the model
\* ------------------------------------------------------------------------
\* stand-in for the 1000-transaction pagination cap of _query_indexer
PaginationCap == 2
\* largest page the indexer returns
MaxPage == 2
\* process restarts, cycle errors and issued assets explored
MaxRestarts == 1
MaxErrors == 6
MaxAssets == 3
\* last day the clock reaches
MaxDay == 40

\* ------------------------------------------------------------------------
\* State
\* ------------------------------------------------------------------------
VARIABLES
    db,         \* the committed store
    persisted,  \* the ListenerState row: [present, round]
    sess,       \* the listener's open session (its uncommitted view of the store)
    chain,      \* the events the ledger has confirmed, oldest first
    script,     \* the events the ledger will confirm, in order
    now,        \* the clock, in days
    nextAsset,  \* the asset id the chain assigns to the next issue
    issued,     \* the events the issuance service has issued an asset for (a bag)
    running,    \* _is_running
    lastRound,  \* _last_processed_round
    errors,     \* _errors_count
    ltask,      \* _listener_task: "none" | "alive"
    rtasks,     \* number of live _retry_failed_mints tasks
    lpc,        \* where the listener loop stands
    lsrc,       \* index of the contract being polled
    ltxns,      \* transactions fetched for that contract and not yet handled
    lmax,       \* max_round_seen
    lseen,      \* ids of the transactions this cycle has fetched
    restarts,   \* process restarts so far
    sweeps,     \* the retry task: attempts and abandonment of each record, iteration
    aborted,    \* ids fetched by a cycle that ended before its commit
    raw,        \* a transaction dict handed to parse_tip_log
    parsed,     \* what parse_tip_log returned for it
    sent,       \* what the contract logged in that transaction
    reqs,       \* token requests (burn, lock, transfer) between their read and commit
    fetch       \* one call of _query_indexer: where it stands and what it holds

vars == <<db, persisted, sess, chain, script, now, nextAsset, issued, running,
          lastRound, errors, ltask, rtasks, lpc, lsrc, ltxns, lmax, lseen, restarts,
          sweeps, aborted, raw, parsed, sent, reqs, fetch>>

decVars == <<raw, parsed, sent>>
sideVars == <<decVars, reqs, fetch>>
envVars == <<chain, script, now>>
taskVars == <<running, ltask, rtasks, restarts>>
cycleVars == <<lsrc, ltxns, lmax, lseen>>

\* no call of _query_indexer is being followed
NoFetch == [pc |-> "none"]

\* ------------------------------------------------------------------------
\* Issuance service answers
\* ------------------------------------------------------------------------
FailExts ==
    {[mint |-> m, deliver |-> "failed", asset |-> 0] : m \in {"transient", "permanent"}}

OkExts(asset) ==
    {[mint |-> "ok", deliver |-> dl, asset |-> asset] :
        dl \in {"delivered", "failed"}}

Exts(asset) == IF asset <= MaxAssets THEN OkExts(asset) \cup FailExts ELSE FailExts

\* the router reaches the issuance service for this record
ReachesMint(d, rec, t) ==
    route_tip(d, rec, t, [mint |-> "permanent", deliver |-> "failed", asset |-> 0]).raised

ExtsFor(d, rec, t, asset) ==
    IF ReachesMint(d, rec, t) THEN Exts(asset)
    ELSE {[mint |-> "permanent", deliver |-> "failed", asset |-> 0]}

BagAdd(b, x) == IF x \in DOMAIN b THEN [b EXCEPT ![x] = b[x] + 1] ELSE (x :> 1) @@ b

\* ------------------------------------------------------------------------
\* Checkpoint store
\* ------------------------------------------------------------------------
\* a loop that forgets the persisted round and starts from zero
LoadFromZero(p) == 0

_load_last_round(p) == IF p.present THEN p.round ELSE 0

_save_last_round(p, round_num) == [present |-> TRUE, round |-> round_num]

\* an abort path that saves the progress of the unfinished cycle
CheckpointSavedOnAbort(p, max_round_seen) ==
    IF max_round_seen > (IF p.present THEN p.round ELSE 0)
    THEN [present |-> TRUE, round |-> max_round_seen]
    ELSE p

\* the except branches of the loop and stop() leave the ListenerState row alone
CheckpointAfterAbort(p, max_round_seen) == p

\* ------------------------------------------------------------------------
\* Ledger query client
\* ------------------------------------------------------------------------
Matching(events, app_id, min_round) ==
    SelectSeq(events, LAMBDA e : e.app = app_id /\ e.round >= min_round)

\* transactions collected when every page arrives: pages are followed until the
\* next-token is absent, a page is empty, or the cap is reached
CollectedLen(total, page) ==
    LET k == (PaginationCap + page - 1) \div page IN
    IF k * page < total THEN k * page ELSE total

\* transactions collected when the last attempt fails after j full pages
PartialLens(total, page) ==
    {j * page : j \in {i \in 0..total : i * page < CollectedLen(total, page)}}

_query_indexer(events, app_id, min_round) ==
    LET all == Matching(events, app_id, min_round) IN
    {SubSeq(all, 1, n) :
        n \in UNION {{CollectedLen(Len(all), pg)} \cup PartialLens(Len(all), pg) :
                        pg \in 1..MaxPage}}


\* ------------------------------------------------------------------------
\* Reconciliation loop (_listener_loop)
\* ------------------------------------------------------------------------
ActiveContracts(d) == SelectSeq(d.contracts, LAMBDA c : c.active)

TxRecord(d, tx) ==
    [tx |-> tx, fan |-> d.txs[tx].fan, creator |-> d.txs[tx].creator,
     amount |-> d.txs[tx].amount, memo |-> d.txs[tx].memo]

NewTxRow(d, e, contract) ==
    [seq |-> Cardinality(DOMAIN d.txs) + 1, fan |-> e.fan, creator |-> contract.creator,
     app |-> contract.app, amount |-> e.amount, memo |-> e.memo, processed |-> FALSE]

\* the deduplication SELECT and parse_tip_log decide whether a row is inserted
Recorded(d, e) == e.id \in DOMAIN d.txs

InsertTx(d, e, contract) == [d EXCEPT !.txs = (e.id :> NewTxRow(d, e, contract)) @@ d.txs]

\* route_tip without the SAVEPOINT: what the router wrote before it raised stays
RouteWithoutSavepoint(d, tx, t, ext) ==
    LET r == route_tip(d, TxRecord(d, tx), t, ext) IN
    IF r.raised \/ r.bad THEN r.db
    ELSE [r.db EXCEPT !.txs[tx].processed = TRUE]

\* route_tip inside the SAVEPOINT: on an exception (raised by the router, or by the
\* flush when the SAVEPOINT is released) the nested transaction is rolled back and
\* the row stays processed = FALSE
RouteInSavepoint(d, tx, t, ext) ==
    LET r == route_tip(d, TxRecord(d, tx), t, ext) IN
    IF r.raised \/ r.bad THEN d
    ELSE [r.db EXCEPT !.txs[tx].processed = TRUE]

\* one iteration of "for txn in txns"
HandleTxn(d, e, contract, t, ext) ==
    IF Recorded(d, e) \/ ~e.decodable THEN d
    ELSE RouteInSavepoint(InsertTx(d, e, contract), e.id, t, ext)

HandleMinted(d, e, contract, t, ext) ==
    ~Recorded(d, e) /\ e.decodable
    /\ route_tip(InsertTx(d, e, contract), TxRecord(InsertTx(d, e, contract), e.id),
                 t, ext).minted

HandleExts(d, e, contract, t, asset) ==
    IF Recorded(d, e) \/ ~e.decodable
    THEN {[mint |-> "permanent", deliver |-> "failed", asset |-> 0]}
    ELSE ExtsFor(InsertTx(d, e, contract), TxRecord(InsertTx(d, e, contract), e.id),
                 t, asset)

\* where the loop goes once the transactions of contract number src are handled
AfterSource(d, src) ==
    IF src < Len(ActiveContracts(d)) THEN [pc |-> "poll", src |-> src + 1]
    ELSE [pc |-> "commit", src |-> 0]

\* a loop that takes the extended sleep once the count reaches the threshold
BackoffAtThreshold(errors_count) ==
    IF errors_count >= ERROR_BACKOFF_THRESHOLD THEN "backoff" ELSE "idle"

\* "if _errors_count > 5": the extended sleep before the next iteration
AfterCycleError(errors_count) ==
    IF errors_count > ERROR_BACKOFF_THRESHOLD THEN "backoff" ELSE "idle"

NoCycle == lsrc' = 0 /\ ltxns' = <<>> /\ lmax' = 0 /\ lseen' = {}

\* start(): create_task(_listener_loop()), create_task(_retry_failed_mints());
\* the application calls start() and stop() one after the other, never at once
Start ==
    /\ lpc # "stopping"
    /\ running' = TRUE
    /\ IF ltask = "alive"
       THEN UNCHANGED <<ltask, rtasks, lpc>>
       ELSE ltask' = "alive" /\ rtasks' = rtasks + 1 /\ lpc' = "boot"
    /\ UNCHANGED <<db, persisted, sess, envVars, nextAsset, issued, lastRound, errors,
                   cycleVars, restarts, sweeps, aborted>>
    /\ UNCHANGED sideVars

\* stop(), first part: the flag is cleared, the loop task is cancelled and awaited
\* (its open session is rolled back); the retry task is cancelled after that
Stop ==
    /\ ltask = "alive" \/ running
    /\ running' = FALSE
    /\ ltask' = "none"
    /\ lpc' = IF rtasks > 0 THEN "stopping" ELSE "none"
    /\ UNCHANGED rtasks
    /\ sess' = db
    /\ persisted' = CheckpointAfterAbort(persisted, lmax)
    /\ NoCycle
    /\ aborted' = IF lpc \in {"poll", "route", "minting", "commit"}
                  THEN aborted \cup lseen ELSE aborted
    /\ UNCHANGED <<db, envVars, nextAsset, issued, lastRound, errors, restarts, sweeps>>
    /\ UNCHANGED sideVars

\* stop(), second part: the retry task is cancelled and awaited (a sweep it is in
\* the middle of is rolled back), the task references are dropped
StopReturn ==
    /\ lpc = "stopping"
    /\ lpc' = "none"
    /\ rtasks' = IF rtasks > 0 THEN rtasks - 1 ELSE 0
    /\ ltask' = "none"
    /\ UNCHANGED <<db, persisted, sess, envVars, nextAsset, issued, running, lastRound,
                   errors, cycleVars, restarts, sweeps, aborted>>
    /\ UNCHANGED sideVars

\* the process dies and is started again: module state is gone, the store is kept
Restart ==
    /\ restarts < MaxRestarts
    /\ restarts' = restarts + 1
    /\ running' = FALSE
    /\ ltask' = "none"
    /\ rtasks' = 0
    /\ lpc' = "none"
    /\ lastRound' = 0
    /\ errors' = 0
    /\ sess' = db
    /\ NoCycle
    /\ aborted' = IF lpc \in {"poll", "route", "minting", "commit"}
                  THEN aborted \cup lseen ELSE aborted
    /\ UNCHANGED <<db, persisted, envVars, nextAsset, issued, sweeps>>
    /\ UNCHANGED sideVars

\* most retry tasks alive at once that are explored
MaxTasks == 2

\* the head of _listener_loop when _load_last_round raises (the store refuses the
\* SELECT): the call is outside the loop's try, so the loop task ends with the
\* error; _is_running stays set and the retry task goes on
BootFails ==
    /\ ltask = "alive" /\ lpc = "boot"
    /\ rtasks < MaxTasks
    /\ ltask' = "none"
    /\ lpc' = "none"
    /\ UNCHANGED <<db, persisted, sess, envVars, nextAsset, issued, running, lastRound,
                   errors, rtasks, cycleVars, restarts, sweeps, aborted>>
    /\ UNCHANGED sideVars

\* the head of _listener_loop: _is_running = True, load the persisted round
Boot ==
    /\ ltask = "alive" /\ lpc = "boot"
    /\ running' = TRUE
    /\ lastRound' = _load_last_round(persisted)
    /\ lpc' = "idle"
    /\ UNCHANGED <<db, persisted, sess, envVars, nextAsset, issued, errors, ltask,
                   rtasks, cycleVars, restarts, sweeps, aborted>>
    /\ UNCHANGED sideVars

\* a cycle begins: the session opens, the membership expiry cleanup runs when due,
\* the active contracts are selected
BeginCycle ==
    /\ ltask = "alive" /\ lpc = "idle" /\ running
    /\ \E cleanup \in BOOLEAN :
        LET r == IF cleanup THEN expire_memberships(db, now)
                 ELSE [db |-> db, bad |-> FALSE, count |-> 0]
        IN IF r.bad
           THEN \* the autoflush of the Contract SELECT raises: a cycle-level error
                /\ errors < MaxErrors
                /\ errors' = errors + 1
                /\ lpc' = AfterCycleError(errors + 1)
                /\ UNCHANGED <<sess, cycleVars>>
           ELSE IF ActiveContracts(db) = <<>>
           THEN UNCHANGED <<sess, lpc, cycleVars, errors>>
           ELSE /\ sess' = r.db
                /\ lpc' = "poll"
                /\ lsrc' = 1
                /\ ltxns' = <<>>
                /\ lmax' = lastRound
                /\ lseen' = {}
                /\ UNCHANGED errors
    /\ UNCHANGED <<db, persisted, envVars, nextAsset, issued, running, lastRound, ltask,
                   rtasks, restarts, sweeps, aborted>>
    /\ UNCHANGED sideVars

\* _query_indexer for the next active contract
PollSource ==
    /\ ltask = "alive" /\ lpc = "poll"
    /\ \E txns \in _query_indexer(chain, ActiveContracts(sess)[lsrc].app, lastRound) :
        /\ lseen' = lseen \cup {txns[i].id : i \in 1..Len(txns)}
        /\ IF txns = <<>>
           THEN /\ lpc' = AfterSource(sess, lsrc).pc
                /\ lsrc' = AfterSource(sess, lsrc).src
                /\ ltxns' = <<>>
           ELSE lpc' = "route" /\ ltxns' = txns /\ UNCHANGED lsrc
    /\ UNCHANGED <<db, persisted, sess, envVars, nextAsset, issued, running, lastRound,
                   errors, ltask, rtasks, lmax, restarts, sweeps, aborted>>
    /\ UNCHANGED sideVars

\* the loop is suspended in "await nft_service.mint_..._async(...)" for the
\* transaction it is handling: the issuance request is in flight
AwaitIssuance ==
    /\ ltask = "alive" /\ lpc = "route"
    /\ LET e == Head(ltxns)
           contract == ActiveContracts(sess)[lsrc]
       IN /\ ~Recorded(sess, e) /\ e.decodable
          /\ ReachesMint(InsertTx(sess, e, contract),
                         TxRecord(InsertTx(sess, e, contract), e.id), now)
    /\ lpc' = "minting"
    /\ UNCHANGED <<db, persisted, sess, envVars, nextAsset, issued, running, lastRound,
                   errors, ltask, rtasks, cycleVars, restarts, sweeps, aborted>>
    /\ UNCHANGED sideVars

\* one fetched transaction: track the round, deduplicate, decode, record, route
\* (to the end, once the issuance service has answered)
HandleEvent ==
    /\ ltask = "alive" /\ lpc \in {"route", "minting"}
    /\ LET e == Head(ltxns)
           contract == ActiveContracts(sess)[lsrc]
       IN /\ lmax' = IF e.round > lmax THEN e.round ELSE lmax
          /\ \E ext \in HandleExts(sess, e, contract, now, nextAsset) :
                /\ sess' = HandleTxn(sess, e, contract, now, ext)
                /\ IF HandleMinted(sess, e, contract, now, ext)
                   THEN nextAsset' = nextAsset + 1 /\ issued' = BagAdd(issued, e.id)
                   ELSE UNCHANGED <<nextAsset, issued>>
          /\ ltxns' = Tail(ltxns)
          /\ IF Tail(ltxns) = <<>>
             THEN lpc' = AfterSource(sess, lsrc).pc /\ lsrc' = AfterSource(sess, lsrc).src
             ELSE lpc' = "route" /\ UNCHANGED lsrc
    /\ UNCHANGED <<db, persisted, envVars, running, lastRound, errors, ltask, rtasks,
                   lseen, restarts, sweeps, aborted>>
    /\ UNCHANGED sideVars

\* "Commit all changes for this cycle", then the in-memory round moves
Commit ==
    /\ ltask = "alive" /\ lpc = "commit"
    /\ db' = sess
    /\ IF lmax > lastRound
       THEN lastRound' = lmax /\ lpc' = "save" /\ UNCHANGED cycleVars
       ELSE UNCHANGED lastRound /\ lpc' = "idle" /\ NoCycle
    /\ UNCHANGED <<persisted, sess, envVars, nextAsset, issued, running, errors, ltask,
                   rtasks, restarts, sweeps, aborted>>
    /\ UNCHANGED sideVars

\* _save_last_round(max_round_seen)
SaveCheckpoint ==
    /\ ltask = "alive" /\ lpc = "save"
    /\ persisted' = _save_last_round(persisted, lmax)
    /\ lpc' = "idle"
    /\ NoCycle
    /\ UNCHANGED <<db, sess, envVars, nextAsset, issued, running, lastRound, errors,
                   ltask, rtasks, restarts, sweeps, aborted>>
    /\ UNCHANGED sideVars

\* an exception reaches the loop boundary: the session is rolled back
CycleError ==
    /\ ltask = "alive" /\ lpc \in {"poll", "route", "minting", "commit", "save"}
    /\ errors < MaxErrors
    /\ errors' = errors + 1
    /\ lpc' = AfterCycleError(errors + 1)
    /\ sess' = db
    /\ persisted' = CheckpointAfterAbort(persisted, lmax)
    /\ NoCycle
    /\ aborted' = IF lpc \in {"poll", "route", "minting", "commit"}
                  THEN aborted \cup lseen ELSE aborted
    /\ UNCHANGED <<db, envVars, nextAsset, issued, running, lastRound, ltask, rtasks,
                   restarts, sweeps>>
    /\ UNCHANGED sideVars

\* "Backoff on repeated errors": the extended sleep ends
Backoff ==
    /\ ltask = "alive" /\ lpc = "backoff"
    /\ lpc' = "idle"
    /\ UNCHANGED <<db, persisted, sess, envVars, nextAsset, issued, running, lastRound,
                   errors, ltask, rtasks, cycleVars, restarts, sweeps, aborted>>
    /\ UNCHANGED sideVars

\* the ledger confirms the next event
Confirm ==
    /\ Len(chain) < Len(script)
    /\ chain' = Append(chain, script[Len(chain) + 1])
    /\ UNCHANGED <<db, persisted, sess, script, now, nextAsset, issued, running,
                   lastRound, errors, ltask, rtasks, lpc, cycleVars, restarts, sweeps, aborted>>
    /\ UNCHANGED sideVars


\* time passes
TickDays == {20}

Tick ==
    /\ \E dt \in TickDays : now + dt <= MaxDay /\ now' = now + dt
    /\ UNCHANGED <<db, persisted, sess, chain, script, nextAsset, issued, running,
                   lastRound, errors, ltask, rtasks, lpc, cycleVars, restarts, sweeps, aborted>>
    /\ UNCHANGED sideVars

\* GET /bauni/verify: verify_membership in a request session that is closed without
\* a commit, so the auto-expire it may write is discarded
VerifyMembershipApi ==
    /\ \E m \in db.memberships :
        /\ verify_membership(db, m.fan, m.creator, now).is_valid \in BOOLEAN
        /\ db' = db
    /\ UNCHANGED <<persisted, sess, chain, script, now, nextAsset, issued, running,
                   lastRound, errors, ltask, rtasks, lpc, cycleVars, restarts, sweeps,
                   aborted>>
    /\ UNCHANGED sideVars

\* most token requests in flight at once
MaxRequests == 2

\* the token requests that are sent: the owner f1 and the stranger f2 ask to burn,
\* lock or transfer token 7
TokenRequests ==
    {[op |-> op, asset |-> 7, fan |-> fan, to |-> to] :
        op \in {"burn", "lock", "transfer"}, fan \in {"f1", "f2"}, to \in {"f1", "f2"}}

\* the service function a request's handler calls
TokenOp(d, r) ==
    CASE r.op = "burn" -> burn_for_merch(d, r.asset, r.fan)
      [] r.op = "lock" -> lock_for_discount(d, r.asset, r.fan)
      [] r.op = "transfer" -> transfer_ownership(d, r.asset, r.fan, r.to)

\* what the commit of a request's session writes: UPDATE of the one column the
\* handler changed on the token's row, INSERT of its Redemption row
FlushTokenRequest(d, r) ==
    [d EXCEPT
        !.tokens = {IF t.asset # r.asset THEN t
                    ELSE CASE r.op = "burn" -> [t EXCEPT !.burned = TRUE]
                           [] r.op = "lock" -> [t EXCEPT !.locked = TRUE]
                           [] r.op = "transfer" -> [t EXCEPT !.owner = r.to] :
                    t \in d.tokens},
        !.redemptions = d.redemptions \cup
            (IF r.op = "transfer" THEN {}
             ELSE {[asset |-> r.asset, fan |-> r.fan,
                    kind |-> IF r.op = "burn" THEN "burn_merch" ELSE "lock_discount"]})]

\* POST /shawty/burn, /shawty/lock, /shawty/transfer up to "await db.commit()":
\* the handler's session reads the committed row and the service function
\* validates it; a refusal answers 400 and writes nothing
TokenRequestRead ==
    /\ Cardinality(reqs) < MaxRequests
    /\ \E r \in TokenRequests \ reqs :
        /\ r.op = "transfer" => r.fan # r.to
        /\ reqs' = IF TokenOp(db, r).success THEN reqs \cup {r} ELSE reqs
    /\ UNCHANGED <<db, persisted, sess, chain, script, now, nextAsset, issued, running,
                   lastRound, errors, ltask, rtasks, lpc, cycleVars, restarts, sweeps,
                   aborted, decVars, fetch>>

\* "await db.commit()" of such a handler; the listener's open session has not
\* changed that column, so its own commit keeps the value
TokenRequestCommit ==
    /\ \E r \in reqs :
        /\ db' = FlushTokenRequest(db, r)
        /\ sess' = FlushTokenRequest(sess, r)
        /\ reqs' = reqs \ {r}
    /\ UNCHANGED <<persisted, chain, script, now, nextAsset, issued, running,
                   lastRound, errors, ltask, rtasks, lpc, cycleVars, restarts, sweeps,
                   aborted, decVars, fetch>>

\* most Order rows that are created
MaxOrders == 2

\* the order requests a fan sends: one unit of product 1, with or without the
\* discount token
OrderRequests ==
    {[fan |-> "f1", creator |-> "c1", items |-> <<[product |-> 1, quantity |-> 1]>>,
      assets |-> a, require_membership |-> FALSE] : a \in {<<>>, <<7>>}}

\* POST /creator/{wallet}/store/order: build_quote, create_order, commit; a
\* failed quote answers 400 and writes nothing
CreateOrderApi ==
    /\ lpc \in {"none", "boot", "idle", "backoff"}
    /\ Cardinality(DOMAIN db.orders) < MaxOrders
    /\ \E req \in OrderRequests :
        LET quote == build_quote(db, req.fan, req.creator, req.items, req.assets,
                                 req.require_membership, now)
        IN db' = IF quote.success THEN create_order(db, req.fan, req.creator, quote)
                 ELSE db
    /\ UNCHANGED <<persisted, sess, chain, script, now, nextAsset, issued, running,
                   lastRound, errors, ltask, rtasks, lpc, cycleVars, restarts, sweeps,
                   aborted>>
    /\ UNCHANGED sideVars

\* POST /creator/{wallet}/store/quote: build_quote in a request session that is
\* closed without a commit
QuoteOrderApi ==
    /\ \E req \in OrderRequests :
        build_quote(db, req.fan, req.creator, req.items, req.assets,
                    req.require_membership, now).success \in BOOLEAN
    /\ UNCHANGED vars

\* ------------------------------------------------------------------------
\* Retry sweeper (_retry_failed_mints)
\* ------------------------------------------------------------------------
\* most router re-runs of one record that are explored
MaxAttempts == 5

ExtKinds == {"delivered", "failed", "transient", "permanent"}

ExtOfKind(kind, asset) ==
    IF kind \in {"transient", "permanent"}
    THEN [mint |-> kind, deliver |-> "failed", asset |-> 0]
    ELSE [mint |-> "ok", deliver |-> kind, asset |-> asset]

Unprocessed(d) == {tx \in DOMAIN d.txs : ~d.txs[tx].processed}

RECURSIVE BySeq(_, _)
BySeq(d, ids) ==
    IF ids = {} THEN <<>>
    ELSE LET first == CHOOSE tx \in ids : \A o \in ids : d.txs[tx].seq <= d.txs[o].seq
         IN <<first>> \o BySeq(d, ids \ {first})

\* SELECT ... WHERE processed = False LIMIT 10
RetryBatch(d) ==
    LET all == BySeq(d, Unprocessed(d)) IN
    IF Len(all) > RETRY_BATCH_LIMIT THEN SubSeq(all, 1, RETRY_BATCH_LIMIT) ELSE all

\* "if not _is_transient_error(e) and retry_count >= 1": abandon at once
AbandonOnError(transient, retry_count) == ~transient /\ retry_count >= 1

\* "if retry_count >= MAX_RETRY_ATTEMPTS": give up
BudgetSpent(retry_count) == retry_count >= MAX_RETRY_ATTEMPTS

\* One record of the batch. acc carries the session (db), whether a flush has
\* failed (aborted: the session is unusable and the sweep ends without a commit),
\* the chain's asset counter, the issued bag and the attempt history.
SweepOne(acc, tx, kind, t) ==
    LET rec == TxRecord(acc.db, tx)
        retry_count == _get_retry_count(rec.memo)
        r == route_tip(acc.db, rec, t, ExtOfKind(kind, acc.asset))
        counted == [acc EXCEPT !.attempts = BagAdd(acc.attempts, tx),
                               !.asset = IF r.minted /\ acc.asset <= MaxAssets
                                         THEN acc.asset + 1 ELSE acc.asset,
                               !.issued = IF r.minted THEN BagAdd(acc.issued, tx)
                                          ELSE acc.issued]
    IN IF acc.aborted THEN acc
       ELSE IF BudgetSpent(retry_count)
       THEN [acc EXCEPT !.db.txs[tx].processed = TRUE,
                        !.abandoned = acc.abandoned \cup {tx}]
       ELSE IF r.bad THEN [counted EXCEPT !.aborted = TRUE]
       ELSE IF ~r.raised
       THEN [counted EXCEPT !.db = [r.db EXCEPT !.txs[tx].processed = TRUE]]
       ELSE IF AbandonOnError(r.transient, retry_count)
       THEN [counted EXCEPT !.db = [r.db EXCEPT !.txs[tx].processed = TRUE],
                            !.abandoned = acc.abandoned \cup {tx}]
       ELSE [counted EXCEPT
                !.db = [r.db EXCEPT !.txs[tx].memo = _increment_retry_count(rec.memo)]]

\* the answers the issuance service can give while this record is retried; past
\* MaxAssets an issue is followed only where the sweep then discards its rows, and
\* only when the iterations are not counted
SweepKinds(acc, tx, t, counted) ==
    IF acc.aborted
       \/ BudgetSpent(_get_retry_count(acc.db.txs[tx].memo))
       \/ ~ReachesMint(acc.db, TxRecord(acc.db, tx), t)
    THEN {"permanent"}
    ELSE IF acc.asset <= MaxAssets THEN ExtKinds
    ELSE IF counted THEN {"transient", "permanent"}
    ELSE {"transient", "permanent"}
         \cup {kind \in {"delivered", "failed"} :
                 route_tip(acc.db, TxRecord(acc.db, tx), t, ExtOfKind(kind, acc.asset)).bad}

\* the batch, record after record: every outcome the sweep can have
RECURSIVE SweepFold(_, _, _, _)
SweepFold(accs, batch, t, counted) ==
    IF batch = <<>> THEN accs
    ELSE SweepFold(UNION {{SweepOne(acc, Head(batch), kind, t) :
                                kind \in SweepKinds(acc, Head(batch), t, counted)} :
                             acc \in accs},
                   Tail(batch), t, counted)

\* "cycle += 1": the iteration number while it is below 6, from there on 6 and 7 in
\* turn (the delay, _retry_delay_for_attempt(min(cycle // 3, 2)), is the same)
CycleAfter(cycle) == IF cycle < 7 THEN cycle + 1 ELSE 6

\* a retry task that does not test the flag
LoopIgnoresStop(is_running) == TRUE

\* "while _is_running": the test the retry task makes before it sleeps again
LoopContinues(is_running) == is_running

\* one iteration of the retry task: the sleep ends, the batch is selected, each
\* record is retried, the session commits, the loop condition is tested. The sleep
\* of an iteration may end while stop() awaits the loop task, or after stop() when
\* the task is one that stop() no longer holds a reference to. With counted, the
\* attempts and the issues of each record are counted and the iterations followed
\* are those in which every count of attempts is below MaxAttempts; without, every
\* iteration is followed, its number is kept and these two histories are not.
SweepStep(counted) ==
    /\ rtasks > 0 /\ (running \/ lpc \in {"stopping", "none"})
    /\ lpc \in {"boot", "idle", "backoff", "stopping", "none"}
    /\ RetryBatch(db) # <<>>
    /\ counted => \A tx \in DOMAIN sweeps.attempts : sweeps.attempts[tx] < MaxAttempts
    /\ LET start == [db |-> db, aborted |-> FALSE, asset |-> nextAsset,
                     issued |-> issued, attempts |-> sweeps.attempts,
                     abandoned |-> sweeps.abandoned]
       IN \E res \in SweepFold({start}, RetryBatch(db), now, counted) :
           /\ db' = IF res.aborted THEN db ELSE res.db
           /\ sess' = db'
           /\ nextAsset' = res.asset
           /\ issued' = IF counted THEN res.issued ELSE issued
           /\ sweeps' = [attempts |-> IF counted THEN res.attempts ELSE sweeps.attempts,
                         abandoned |-> IF res.aborted THEN sweeps.abandoned
                                       ELSE res.abandoned,
                         cycle |-> IF counted THEN sweeps.cycle
                                   ELSE CycleAfter(sweeps.cycle)]
    /\ rtasks' = IF LoopContinues(running) THEN rtasks ELSE rtasks - 1
    /\ UNCHANGED <<persisted, envVars, running, lastRound, errors, ltask, lpc,
                   cycleVars, restarts, aborted>>
    /\ UNCHANGED sideVars

Sweep == SweepStep(TRUE)

\* the retry task followed for as long as it runs
SweepOn == SweepStep(FALSE)


\* ------------------------------------------------------------------------
\* Initial states
\* ------------------------------------------------------------------------
Tip(id, app, round, fan, amount, memo) ==
    [id |-> id, app |-> app, round |-> round, decodable |-> TRUE, fan |-> fan,
     amount |-> amount, memo |-> memo]

\* an application call that is no tip (pause, unpause): parse_tip_log gives None
NonTip(id, app, round) ==
    [id |-> id, app |-> app, round |-> round, decodable |-> FALSE, fan |-> "",
     amount |-> 0, memo |-> <<>>]

TwoContracts ==
    <<[app |-> 1, creator |-> "c1", active |-> TRUE],
      [app |-> 2, creator |-> "c2", active |-> TRUE]>>

MemoPlain == <<"g", "m">>

InitWith(store, events) ==
    /\ db = store
    /\ persisted = [present |-> FALSE, round |-> 0]
    /\ sess = store
    /\ chain = <<>>
    /\ script = events
    /\ now = 0
    /\ nextAsset = 1
    /\ issued = EmptyFn
    /\ running = FALSE
    /\ lastRound = 0
    /\ errors = 0
    /\ ltask = "none"
    /\ rtasks = 0
    /\ lpc = "none"
    /\ lsrc = 0
    /\ ltxns = <<>>
    /\ lmax = 0
    /\ lseen = {}
    /\ restarts = 0
    /\ sweeps = [attempts |-> EmptyFn, abandoned |-> {}, cycle |-> 0]
    /\ aborted = {}
    /\ raw = [logs |-> <<>>]
    /\ parsed = [called |-> FALSE]
    /\ sent = [kind |-> "nolog"]
    /\ reqs = {}
    /\ fetch = NoFetch

\* ------------------------------------------------------------------------
\* Checkpointing: two payment sources, plain tips, failures, stops and restarts
\* ------------------------------------------------------------------------
CheckpointScript ==
    <<Tip("t1", 1, 1, "f1", 500000, MemoPlain),
      Tip("t2", 2, 2, "f1", 500000, MemoPlain),
      NonTip("t3", 1, 2),
      Tip("t4", 1, 3, "f2", 500000, MemoPlain)>>

InitCheckpoint == InitWith([EmptyDb EXCEPT !.contracts = TwoContracts], CheckpointScript)

NextCheckpoint ==
    \/ Start \/ Stop \/ StopReturn \/ Restart \/ Boot \/ BeginCycle \/ PollSource \/ HandleEvent
    \/ Commit \/ SaveCheckpoint \/ CycleError \/ Backoff \/ Confirm

SpecCheckpoint == InitCheckpoint /\ [][NextCheckpoint]_vars


\* ------------------------------------------------------------------------
\* Properties of the checkpoint
\* ------------------------------------------------------------------------
CkptRound(p) == IF p.present THEN p.round ELSE 0

EventOf(id) == chain[CHOOSE i \in 1..Len(chain) : chain[i].id = id]

\* C2 Checkpoint monotonicity: over poll cycles, cycle failures, stop(), start()
\* and process restarts the persisted round never decreases and the row never
\* disappears, and a loop that starts takes the persisted round (0 only when no
\* row exists) as the round it polls from.
C2_CheckpointMonotonic ==
    [][/\ CkptRound(persisted') >= CkptRound(persisted)
       /\ (persisted.present => persisted'.present)
       /\ ((lpc = "boot" /\ lpc' = "idle") => lastRound' = CkptRound(persisted))
       /\ ((lpc = "idle" /\ lpc' = "poll") => lastRound >= CkptRound(persisted))]_vars

\* a restarted loop polls from a persisted round that earlier cycles advanced
C2_Witness ==
    /\ restarts = 1 /\ lpc = "poll"
    /\ persisted.present /\ persisted.round >= 2
    /\ lastRound = persisted.round

\* C3 No payment event is lost behind the checkpoint: whenever the persisted
\* round is p, every decodable event of an active source confirmed at a round
\* lower than p has a Payment Record.
C3_NoEventBehindCheckpoint ==
    persisted.present =>
        \A i \in 1..Len(chain) :
            (chain[i].decodable /\ chain[i].round < persisted.round)
                => chain[i].id \in DOMAIN db.txs

OneContract == <<[app |-> 1, creator |-> "c1", active |-> TRUE]>>

Template(creator, category) == [creator |-> creator, category |-> category]

MembershipScript ==
    <<Tip("m1", 1, 1, "f1", BAUNI_COST_MICRO, MEMO_BAUNI_PREFIX),
      Tip("m2", 1, 2, "f1", BAUNI_COST_MICRO, MEMO_BAUNI_PREFIX),
      Tip("m3", 1, 3, "f1", BAUNI_COST_MICRO, MEMO_BAUNI_PREFIX)>>

InitMembership ==
    InitWith([EmptyDb EXCEPT !.contracts = OneContract,
                             !.templates = {Template("c1", "bauni_membership")}],
             MembershipScript)

NextMembership ==
    \/ Start \/ Boot \/ BeginCycle \/ PollSource \/ HandleEvent \/ Commit
    \/ SaveCheckpoint \/ Confirm \/ Tick \/ Sweep \/ VerifyMembershipApi

SpecMembership == InitMembership /\ [][NextMembership]_vars

Pairs(d) == {<<m.fan, m.creator>> : m \in d.memberships}

ActiveOf(d, pair) == {m \in d.memberships : m.fan = pair[1] /\ m.creator = pair[2] /\ m.active}

\* C6 Membership renewal accrues: in every reachable store, a purchase_membership
\* call for a pair whose active membership expires at T > now succeeds, deactivates
\* that membership and leaves the pair one active successor expiring at T + 30 days;
\* this covers the first renewal and every later one.
C6_RenewalAccrues ==
    \A pair \in Pairs(db) :
        \A m \in ActiveOf(db, pair) :
            m.expires_at > now =>
                LET r == purchase_membership(db, pair[1], pair[2], nextAsset, "probe", now)
                IN /\ ~r.bad
                   /\ [m EXCEPT !.active = FALSE] \in r.db.memberships
                   /\ \E n \in ActiveOf(r.db, pair) :
                        n.expires_at = m.expires_at + BAUNI_VALIDITY_DAYS /\ n.ptx = "probe"

\* C7 At most one active membership per pair, in the committed store and in the
\* listener's session, after any purchases, renewals, verifications and cleanups.
C7_OneActiveMembership ==
    \A d \in {db, sess} :
        \A pair \in Pairs(d) : Cardinality(ActiveOf(d, pair)) <= 1

\* a pair that renewed: a deactivated predecessor beside the one active membership
C7_Witness ==
    \E m1, m2 \in db.memberships :
        /\ m1.fan = m2.fan /\ m1.creator = m2.creator
        /\ ~m1.active /\ m2.active
        /\ m2.expires_at = m1.expires_at + BAUNI_VALIDITY_DAYS


\* ------------------------------------------------------------------------
\* Loyalty: eleven qualifying tips of one pair, tips of a second payer, one tip
\* below the minimum, a badge template whose issue may fail
\* ------------------------------------------------------------------------
LoyaltyScript ==
    <<Tip("b01", 1, 1, "f1", BUTKI_MIN_TIP_MICRO, MemoPlain),
      Tip("b02", 1, 2, "f1", BUTKI_MIN_TIP_MICRO, MemoPlain),
      Tip("b03", 1, 3, "f2", BUTKI_MIN_TIP_MICRO, MemoPlain),
      Tip("b04", 1, 4, "f1", BUTKI_MIN_TIP_MICRO + 1, MemoPlain),
      Tip("b05", 1, 5, "f1", BUTKI_MIN_TIP_MICRO - 1, MemoPlain),
      Tip("b06", 1, 6, "f1", BUTKI_MIN_TIP_MICRO, MemoPlain),
      Tip("b07", 1, 7, "f1", BUTKI_MIN_TIP_MICRO, MemoPlain),
      Tip("b08", 1, 8, "f1", BUTKI_MIN_TIP_MICRO, MemoPlain),
      Tip("b09", 1, 9, "f1", BUTKI_MIN_TIP_MICRO, MemoPlain),
      Tip("b10", 1, 10, "f1", BUTKI_MIN_TIP_MICRO, MemoPlain),
      Tip("b11", 1, 11, "f1", BUTKI_MIN_TIP_MICRO, MemoPlain),
      Tip("b12", 1, 12, "f1", BUTKI_MIN_TIP_MICRO, MemoPlain),
      Tip("b13", 1, 13, "f1", BUTKI_MIN_TIP_MICRO, MemoPlain)>>

InitLoyalty ==
    InitWith([EmptyDb EXCEPT !.contracts = OneContract,
                             !.templates = {Template("c1", "butki_badge")}],
             LoyaltyScript)

NextLoyalty ==
    \/ Start \/ Boot \/ BeginCycle \/ PollSource \/ HandleEvent \/ Commit
    \/ SaveCheckpoint \/ Confirm \/ Sweep

SpecLoyalty == InitLoyalty /\ [][NextLoyalty]_vars

CountOf(d, fan, creator) ==
    IF <<fan, creator>> \in DOMAIN d.loyalty THEN d.loyalty[<<fan, creator>>].tip_count ELSE 0

BadgesOf(d, fan, creator) ==
    IF <<fan, creator>> \in DOMAIN d.loyalty THEN d.loyalty[<<fan, creator>>].badges ELSE 0

ProbeIds == {script[i].id : i \in 1..Len(script)} \cup {"fresh"}

\* C5 Badge correctness: every loyalty row has badges_earned = floor(tip_count / 5),
\* in the committed store and in the listener's session; and in every reachable
\* store record_tip reports earned_badge exactly when the application is a new
\* qualifying event id that raises tip_count to a multiple of 5, in which case
\* badges_earned grows by one; a re-delivered event id changes nothing.
C5_BadgeCorrectness ==
    \A d \in {db, sess} :
        /\ \A pair \in DOMAIN d.loyalty :
            d.loyalty[pair].badges = d.loyalty[pair].tip_count \div BUTKI_BADGE_INTERVAL
        /\ \A fan \in {"f1", "f2"}, tx \in ProbeIds,
              amount \in {BUTKI_MIN_TIP_MICRO - 1, BUTKI_MIN_TIP_MICRO} :
            LET r == record_tip(d, fan, "c1", tx, amount)
                fresh == amount >= BUTKI_MIN_TIP_MICRO /\ ~\E j \in d.journal : j.tx = tx
                crossing == (CountOf(d, fan, "c1") + 1) % BUTKI_BADGE_INTERVAL = 0
            IN /\ r.earned_badge <=> (fresh /\ crossing)
               /\ CountOf(r.db, fan, "c1") = CountOf(d, fan, "c1") + (IF fresh THEN 1 ELSE 0)
               /\ BadgesOf(r.db, fan, "c1")
                    = BadgesOf(d, fan, "c1") + (IF fresh /\ crossing THEN 1 ELSE 0)
               /\ (~fresh => r.db = d)

\* the tenth qualifying tip of a pair is in, after the sweeper ran record_tip a
\* second time for an event id it had already applied
C5_Witness ==
    /\ CountOf(db, "f1", "c1") = 2 * BUTKI_BADGE_INTERVAL
    /\ BadgesOf(db, "f1", "c1") = 2
    /\ \E tx \in DOMAIN sweeps.attempts :
        sweeps.attempts[tx] >= 2 /\ \E j \in db.journal : j.tx = tx


\* ------------------------------------------------------------------------
\* Rewards: an order awaiting payment with a tracked product and a discount token,
\* two payments for it, a token purchase, a membership purchase, a plain tip
\* ------------------------------------------------------------------------
MemoOrder1 == MEMO_ORDER_PREFIX \o <<"1">>

RewardsStore ==
    [EmptyDb EXCEPT
        !.contracts = OneContract,
        !.templates = {Template("c1", "bauni_membership"),
                       Template("c1", "shawty_collectible")},
        !.products = (1 :> [creator |-> "c1", price |-> 4000000, active |-> TRUE,
                            max_per_order |-> 5, tracked |-> TRUE, stock |-> 2]),
        !.tokens = {[asset |-> 7, owner |-> "f1", creator |-> "c1", ptx |-> "s0",
                     burned |-> FALSE, locked |-> FALSE]},
        !.orders = (1 :> [fan |-> "f1", creator |-> "c1", status |-> "PENDING_PAYMENT",
                          subtotal |-> 4000000, discount |-> 1000000,
                          total |-> 3000000, tokens |-> <<7>>, tx |-> None,
                          items |-> <<[product |-> 1, quantity |-> 1]>>])]

RewardsScript ==
    <<Tip("o1", 1, 1, "f1", 3000000, MemoOrder1),
      Tip("o2", 1, 2, "f1", 3000000, MemoOrder1),
      Tip("s1", 1, 3, "f1", SHAWTY_COST_MICRO, MEMO_SHAWTY_PREFIX),
      Tip("m1", 1, 4, "f1", BAUNI_COST_MICRO, MEMO_BAUNI_PREFIX),
      Tip("g1", 1, 5, "f2", BUTKI_MIN_TIP_MICRO, MemoPlain)>>

InitRewards == InitWith(RewardsStore, RewardsScript)

NextRewards ==
    \/ Start \/ Boot \/ BeginCycle \/ PollSource \/ HandleEvent \/ Commit
    \/ SaveCheckpoint \/ Confirm \/ Sweep

SpecRewards == InitRewards /\ [][NextRewards]_vars

\* the records whose routing returned and was committed
Applied == {tx \in DOMAIN db.txs : db.txs[tx].processed /\ tx \notin sweeps.abandoned}

\* C1 Idempotency of every reward path: for every Payment Record whose routing was
\* applied and committed, route_tip on the same event id, whatever the issuance
\* service would answer and whenever it runs, issues nothing and leaves the loyalty
\* rows, the journal, the memberships, the tokens, the orders and the stock as
\* they are.
C1_SecondApplicationNoOp ==
    \A tx \in Applied :
        \A ext \in OkExts(nextAsset) \cup FailExts, t \in {now, now + BAUNI_VALIDITY_DAYS} :
            LET r == route_tip(db, TxRecord(db, tx), t, ext) IN
            /\ Ledger(r.db) = Ledger(db)
            /\ ~r.minted /\ ~r.raised

\* all four paths have been applied: the order is paid, the token and the
\* membership exist, the tips are in the journal
C1_Witness ==
    /\ {"o1", "o2", "s1", "m1", "g1"} \subseteq Applied
    /\ db.orders[1].status = "PAID"
    /\ \E t \in db.tokens : t.ptx = "s1"
    /\ \E m \in db.memberships : m.ptx = "m1"
    /\ \E j \in db.journal : j.tx = "g1"

\* C8 Order settlement exactly-once: once an order is PAID (in the committed store
\* or in the listener's session), no step changes its row (status, settlement
\* tx_id), the stock of its products or its token locks, and settle_order_payment
\* for it reports "not settled" and changes nothing, for the same or any other
\* event id.
C8_SettledOnce ==
    [][/\ \A d \in {<<db, db'>>, <<sess, sess'>>} :
            \A o \in DOMAIN d[1].orders :
                d[1].orders[o].status = "PAID" =>
                    /\ d[2].orders[o] = d[1].orders[o]
                    /\ d[2].products = d[1].products
                    /\ {t \in d[2].tokens : t.locked} = {t \in d[1].tokens : t.locked}
       /\ \A o \in DOMAIN db.orders :
            db.orders[o].status = "PAID" =>
                \A tx \in {"o1", "o2", "fresh"} :
                    LET r == settle_order_payment(db, o, db.orders[o].fan,
                                                  db.orders[o].creator,
                                                  db.orders[o].total, tx)
                    IN ~r.settled /\ r.db = db]_vars

\* the order was paid by its first payment and a second payment for it has been
\* routed since
C8_Witness ==
    /\ db.orders[1].status = "PAID" /\ db.orders[1].tx = "o1"
    /\ "o2" \in DOMAIN db.txs /\ db.txs["o2"].processed
    /\ db.products[1].stock = 1
    /\ \E t \in db.tokens : t.asset = 7 /\ t.locked


\* ------------------------------------------------------------------------
\* Retries: membership purchases whose issue can fail; the memo of the second is
\* text its payer chose
\* ------------------------------------------------------------------------
MemoCrafted == MEMO_BAUNI_PREFIX \o RETRY_MARK \o <<"-", "2">>

RetryScript ==
    <<Tip("q1", 1, 1, "f1", BAUNI_COST_MICRO, MEMO_BAUNI_PREFIX),
      Tip("q2", 1, 2, "f2", BAUNI_COST_MICRO, MemoCrafted)>>

InitRetry ==
    InitWith([EmptyDb EXCEPT !.contracts = OneContract,
                             !.templates = {Template("c1", "bauni_membership")}],
             RetryScript)

NextRetry ==
    \/ Start \/ Boot \/ BeginCycle \/ PollSource \/ HandleEvent \/ Commit
    \/ SaveCheckpoint \/ Confirm \/ Sweep

SpecRetry == InitRetry /\ [][NextRetry]_vars

\* C9 Retry abandonment: the sweeper re-runs the router for a Payment Record at
\* most MAX_RETRY_ATTEMPTS times, and a record it has given up is processed and
\* is not selected again.
C9_RetryBudget ==
    /\ \A tx \in DOMAIN sweeps.attempts : sweeps.attempts[tx] <= MAX_RETRY_ATTEMPTS
    /\ \A tx \in sweeps.abandoned : db.txs[tx].processed /\ tx \notin Unprocessed(db)


\* ------------------------------------------------------------------------
\* Payload decoder (parse_tip_log)
\* ------------------------------------------------------------------------
\* A byte is a number in 0..255, a log is a sequence of characters, a text is a
\* sequence of Unicode code points.
B64Chars == UpperChars \o LowerChars \o DigitChars \o <<"+", "/">>

\* stands for any character outside ASCII
NonAscii == "U+00E9"

IsB64(c) == \E k \in 1..64 : B64Chars[k] = c

B64Index(c) == (CHOOSE k \in 1..64 : B64Chars[k] = c) - 1

\* binascii.a2b_base64 without strict mode. Characters outside the alphabet are
\* skipped. A "=" ends the parse when the data characters before it fill two
\* places of a quad and it is the second "=" since the last of them, or fill three
\* places; with no such "=", leftover data characters are an error
\* ([ok |-> FALSE]). Every data character after the first of a quad completes a
\* byte.
PadsSince(s, i) ==
    LET last == IF \E j \in 1..(i - 1) : IsB64(s[j])
                THEN CHOOSE j \in 1..(i - 1) :
                        IsB64(s[j]) /\ \A m \in (j + 1)..(i - 1) : ~IsB64(s[m])
                ELSE 0
    IN Cardinality({m \in (last + 1)..i : s[m] = "="})

DataBefore(s, i) == Cardinality({j \in 1..(i - 1) : IsB64(s[j])})

EndsParse(s, i) ==
    /\ s[i] = "="
    /\ DataBefore(s, i) % 4 >= 2
    /\ (DataBefore(s, i) % 4) + PadsSince(s, i) >= 4

a2b_base64(s) ==
    LET stops == {i \in 1..Len(s) : EndsParse(s, i)}
        upto == IF stops = {} THEN Len(s)
                ELSE (CHOOSE i \in stops : \A j \in stops : i <= j) - 1
        data == SelectSeq(SubSeq(s, 1, upto), IsB64)
        v == [k \in 1..Len(data) |-> B64Index(data[k])]
        nbytes == (3 * (Len(v) \div 4))
                    + (IF Len(v) % 4 >= 2 THEN (Len(v) % 4) - 1 ELSE 0)
        byte(k) ==
            LET g == 4 * ((k - 1) \div 3) IN
            CASE (k - 1) % 3 = 0 -> (v[g + 1] * 4) + (v[g + 2] \div 16)
              [] (k - 1) % 3 = 1 -> ((v[g + 2] % 16) * 16) + (v[g + 3] \div 4)
              [] OTHER -> ((v[g + 3] % 4) * 64) + v[g + 4]
    IN [ok |-> stops # {} \/ Len(v) % 4 = 0, bytes |-> [k \in 1..nbytes |-> byte(k)]]

\* base64.b64decode(str): the text is encoded to ASCII first, which raises for a
\* character outside ASCII
b64decode(s) ==
    IF \E i \in 1..Len(s) : s[i] = NonAscii THEN [ok |-> FALSE, bytes |-> <<>>]
    ELSE a2b_base64(s)

\* int.from_bytes(b, "big")
RECURSIVE from_bytes_big(_, _)
from_bytes_big(b, acc) ==
    IF b = <<>> THEN acc ELSE from_bytes_big(Tail(b), acc * 256 + Head(b))

\* bytes.decode("utf-8", errors="ignore")
IsCont(b) == b >= 128 /\ b <= 191

SeqLen(lead) ==
    IF lead < 128 THEN 1
    ELSE IF lead >= 194 /\ lead <= 223 THEN 2
    ELSE IF lead >= 224 /\ lead <= 239 THEN 3
    ELSE IF lead >= 240 /\ lead <= 244 THEN 4
    ELSE 0

SecondOk(lead, b2) ==
    /\ IsCont(b2)
    /\ (lead = 224 => b2 >= 160)
    /\ (lead = 237 => b2 <= 159)
    /\ (lead = 240 => b2 >= 144)
    /\ (lead = 244 => b2 <= 143)

\* how many bytes from position i on are a valid start of one encoded character
GoodPrefix(b, i) ==
    LET n == SeqLen(b[i])
        has(k) == i + k - 1 <= Len(b)
    IN IF n <= 1 THEN 1
       ELSE IF ~(has(2) /\ SecondOk(b[i], b[i + 1])) THEN 1
       ELSE IF n = 2 THEN 2
       ELSE IF ~(has(3) /\ IsCont(b[i + 2])) THEN 2
       ELSE IF n = 3 THEN 3
       ELSE IF ~(has(4) /\ IsCont(b[i + 3])) THEN 3
       ELSE 4

CodePoint(b, i, n) ==
    CASE n = 1 -> b[i]
      [] n = 2 -> (b[i] - 192) * 64 + (b[i + 1] - 128)
      [] n = 3 -> (b[i] - 224) * 4096 + (b[i + 1] - 128) * 64 + (b[i + 2] - 128)
      [] OTHER -> (b[i] - 240) * 262144 + (b[i + 1] - 128) * 4096
                    + (b[i + 2] - 128) * 64 + (b[i + 3] - 128)

RECURSIVE decode_utf8_ignore(_, _)
decode_utf8_ignore(b, i) ==
    IF i > Len(b) THEN <<>>
    ELSE LET n == SeqLen(b[i])
             k == GoodPrefix(b, i)
         IN IF n > 0 /\ k = n
            THEN <<CodePoint(b, i, n)>> \o decode_utf8_ignore(b, i + n)
            ELSE decode_utf8_ignore(b, i + k)

\* algosdk encode_address: the address text of a 32-byte public key (the key and
\* its checksum in base32, which decode_address inverts); raises for other lengths
encode_address(b) ==
    IF Len(b) = ADDR_LEN THEN [ok |-> TRUE, addr |-> <<"address of", b>>]
    ELSE [ok |-> FALSE, addr |-> <<>>]

\* a length test that also rejects a payload with an empty memo
TooShortOffByOne(payload) == Len(payload) <= MIN_LOG_LEN

\* "if len(raw) < 40"
TooShort(payload) == Len(payload) < MIN_LOG_LEN

\* the Optional[dict] that parse_tip_log returns
NoEvent == [none |-> TRUE]

parse_tip_log(txn) ==
    IF txn.logs = <<>> THEN NoEvent
    ELSE LET dec == b64decode(txn.logs[1]) IN
         IF ~dec.ok THEN NoEvent
         ELSE IF TooShort(dec.bytes) THEN NoEvent
         ELSE LET fan_address_bytes == SubSeq(dec.bytes, 1, ADDR_LEN)
                  amount_micro == from_bytes_big(SubSeq(dec.bytes, ADDR_LEN + 1, MIN_LOG_LEN), 0)
                  memo_bytes == SubSeq(dec.bytes, MIN_LOG_LEN + 1, Len(dec.bytes))
                  fan_wallet == encode_address(fan_address_bytes)
              IN IF ~fan_wallet.ok THEN NoEvent
                 ELSE [none |-> FALSE, fan_wallet |-> fan_wallet.addr,
                       amount_micro |-> amount_micro,
                       memo |-> decode_utf8_ignore(memo_bytes, 1)]

\* the listener hands one fetched transaction to the decoder
Decode ==
    /\ ~parsed.called
    /\ parsed' = [called |-> TRUE, result |-> parse_tip_log(raw)]
    /\ UNCHANGED <<db, persisted, sess, chain, script, now, nextAsset, issued, running,
                   lastRound, errors, ltask, rtasks, lpc, cycleVars, restarts, sweeps,
                   aborted, raw, sent, reqs, fetch>>

\* ------------------------------------------------------------------------
\* Decoding: what the contract logs, as the indexer returns it
\* ------------------------------------------------------------------------
\* the contract's side: Concat(sender, Itob(amount), memo), base64 by the indexer
RECURSIVE B64Encode(_)
B64Encode(b) ==
    LET ch(v) == B64Chars[v + 1] IN
    IF b = <<>> THEN <<>>
    ELSE IF Len(b) = 1
    THEN <<ch(b[1] \div 4), ch((b[1] % 4) * 16), "=", "=">>
    ELSE IF Len(b) = 2
    THEN <<ch(b[1] \div 4), ch(((b[1] % 4) * 16) + (b[2] \div 16)),
           ch((b[2] % 16) * 4), "=">>
    ELSE <<ch(b[1] \div 4), ch(((b[1] % 4) * 16) + (b[2] \div 16)),
           ch(((b[2] % 16) * 4) + (b[3] \div 64)), ch(b[3] % 64)>>
         \o B64Encode(SubSeq(b, 4, Len(b)))

RECURSIVE Itob(_, _)
Itob(n, width) ==
    IF width = 0 THEN <<>> ELSE Itob(n \div 256, width - 1) \o <<n % 256>>

Utf8Char(c) ==
    IF c < 128 THEN <<c>>
    ELSE IF c < 2048 THEN <<192 + (c \div 64), 128 + (c % 64)>>
    ELSE IF c < 65536
    THEN <<224 + (c \div 4096), 128 + ((c \div 64) % 64), 128 + (c % 64)>>
    ELSE <<240 + (c \div 262144), 128 + ((c \div 4096) % 64), 128 + ((c \div 64) % 64),
           128 + (c % 64)>>

RECURSIVE Utf8Encode(_)
Utf8Encode(text) ==
    IF text = <<>> THEN <<>> ELSE Utf8Char(Head(text)) \o Utf8Encode(Tail(text))

SenderKeys == {[i \in 1..ADDR_LEN |-> 0], [i \in 1..ADDR_LEN |-> 255],
               [i \in 1..ADDR_LEN |-> 7 * i]}

SentAmounts == {0, 1, 256, 500000, 5000000, 2147483647}

\* memo texts: empty, "GM", "é", "A€", an emoji
SentTexts == {<<>>, <<71, 77>>, <<233>>, <<65, 8364>>, <<128512>>}

\* memo bytes that are no UTF-8 text
SentBrokenMemos ==
    {<<255>>, <<65, 255, 66>>, <<195>>, <<226, 130>>, <<226, 130, 65>>, <<128>>,
     <<192, 128>>, <<237, 160, 128>>, <<240, 159, 152>>, <<71, 195, 40>>}

Payload(key, amount, memo_bytes) == key \o Itob(amount, 8) \o memo_bytes

\* a payment logged by the contract and returned intact
SentIntact ==
    {[kind |-> "payment", utf8 |-> TRUE, key |-> k, amount |-> a, text |-> t,
      memo_bytes |-> Utf8Encode(t),
      log |-> B64Encode(Payload(k, a, Utf8Encode(t)))] :
        k \in SenderKeys, a \in SentAmounts, t \in SentTexts}
    \cup
    {[kind |-> "payment", utf8 |-> FALSE, key |-> k, amount |-> a, text |-> <<>>,
      memo_bytes |-> m,
      log |-> B64Encode(Payload(k, a, m))] :
        k \in SenderKeys, a \in {1, 5000000}, m \in SentBrokenMemos}

\* other application calls log shorter values
SentShort ==
    {[kind |-> "short", utf8 |-> TRUE, key |-> k, amount |-> 0, text |-> <<>>,
      memo_bytes |-> <<>>,
      log |-> B64Encode(SubSeq(Payload(k, 1, <<>>), 1, n))] :
        k \in SenderKeys, n \in {0, 1, 8, MIN_LOG_LEN - 1}}

\* logs that are no base64 text: a character missing at the end, or a character
\* outside ASCII
SentDamaged ==
    {[s EXCEPT !.kind = "damaged", !.log = SubSeq(s.log, 1, Len(s.log) - 1)] :
        s \in {x \in SentIntact : x.amount = 1}}
    \cup
    {[s EXCEPT !.kind = "damaged", !.log = <<NonAscii>> \o s.log] :
        s \in {x \in SentIntact : x.amount = 1 /\ x.text = <<71, 77>>}}

\* logs with characters outside the base64 alphabet among the data
SentPadded ==
    {[s EXCEPT !.kind = "noisy", !.log = <<"\n">> \o SubSeq(s.log, 1, 8) \o <<"*">>
                                          \o SubSeq(s.log, 9, Len(s.log))] :
        s \in {x \in SentIntact : x.amount = 5000000}}

SentAll ==
    {[kind |-> "nolog"]} \cup SentIntact \cup SentShort \cup SentDamaged \cup SentPadded

InitDecoder ==
    /\ db = EmptyDb
    /\ persisted = [present |-> FALSE, round |-> 0]
    /\ sess = EmptyDb /\ chain = <<>> /\ script = <<>> /\ now = 0 /\ nextAsset = 1
    /\ issued = EmptyFn /\ running = FALSE /\ lastRound = 0 /\ errors = 0
    /\ ltask = "none" /\ rtasks = 0 /\ lpc = "none" /\ lsrc = 0 /\ ltxns = <<>>
    /\ lmax = 0 /\ lseen = {} /\ restarts = 0
    /\ sweeps = [attempts |-> EmptyFn, abandoned |-> {}, cycle |-> 0] /\ aborted = {}
    /\ sent \in SentAll
    /\ raw = [logs |-> IF sent.kind = "nolog" THEN <<>> ELSE <<sent.log>>]
    /\ parsed = [called |-> FALSE]
    /\ reqs = {}
    /\ fetch = NoFetch

NextDecoder == Decode

SpecDecoder == InitDecoder /\ [][NextDecoder]_vars


decode_address(addr) == addr[2]

RECURSIVE IsSubseq(_, _)
IsSubseq(a, b) ==
    IF a = <<>> THEN TRUE
    ELSE IF b = <<>> THEN FALSE
    ELSE IF Head(a) = Head(b) THEN IsSubseq(Tail(a), Tail(b))
    ELSE IsSubseq(a, Tail(b))

IsPayment(s) == s.kind \in {"payment", "noisy"}

\* the claim as stated: no event for a missing log, a log that is not the base64
\* text of a payload, or a payload under 40 bytes; otherwise payer, amount and a
\* memo that is the remaining bytes
C10_DecoderAsStated ==
    parsed.called =>
        IF sent.kind \in {"nolog", "short", "damaged", "noisy"}
        THEN parsed.result = NoEvent
        ELSE /\ parsed.result # NoEvent
             /\ decode_address(parsed.result.fan_wallet) = sent.key
             /\ parsed.result.amount_micro = sent.amount
             /\ Utf8Encode(parsed.result.memo) = sent.memo_bytes

\* C10 Decoder boundary, as the code has it: parse_tip_log never raises; it
\* returns None for an empty log list, for a first log that b64decode rejects (a
\* character outside ASCII, or data characters that do not end in a complete,
\* padded quad once characters outside the alphabet are dropped), and for a
\* payload under 40 bytes; for every other payload, characters outside the
\* alphabet notwithstanding, it returns payer = bytes 0..31, amount = bytes
\* 32..39 big-endian, and memo = the remaining bytes decoded as UTF-8 with the
\* bytes that are no part of a valid sequence dropped: the text itself when the
\* bytes are UTF-8, otherwise a text whose encoding is a subsequence of them.
C10_DecoderBoundary ==
    parsed.called =>
        IF ~IsPayment(sent)
        THEN parsed.result = NoEvent
        ELSE /\ parsed.result # NoEvent
             /\ decode_address(parsed.result.fan_wallet) = sent.key
             /\ parsed.result.amount_micro = sent.amount
             /\ sent.utf8 => parsed.result.memo = sent.text
             /\ IsSubseq(Utf8Encode(parsed.result.memo), sent.memo_bytes)

\* a payment whose memo bytes are no UTF-8 text was decoded to an event with a
\* shorter memo
C10_Witness ==
    /\ parsed.called /\ sent.kind = "payment" /\ ~sent.utf8
    /\ parsed.result # NoEvent
    /\ parsed.result.amount_micro = 5000000
    /\ Len(Utf8Encode(parsed.result.memo)) < Len(sent.memo_bytes)
    /\ parsed.result.memo # <<>>


\* ------------------------------------------------------------------------
\* Properties of the sweeper's error handling
\* ------------------------------------------------------------------------
\* failed sweeper attempts the record has had
PriorAttempts(tx) == IF tx \in DOMAIN sweeps.attempts THEN sweeps.attempts[tx] ELSE 0

SweepStart ==
    [db |-> db, aborted |-> FALSE, asset |-> nextAsset, issued |-> issued,
     attempts |-> sweeps.attempts, abandoned |-> sweeps.abandoned]

\* C19 Permanent-error abandonment: when the sweeper retries an unprocessed record
\* and the retry fails, a permanent error on a record that has had at least one
\* failed attempt before marks it processed at once; a transient error, or a
\* record that has had no attempt before, gets the retry count raised by exactly
\* one and the record stays unprocessed.
C19_PermanentAbandonment ==
    \A tx \in Unprocessed(db) :
        LET count == _get_retry_count(db.txs[tx].memo) IN
        (~BudgetSpent(count) /\ ReachesMint(db, TxRecord(db, tx), now)) =>
            \A kind \in {"transient", "permanent"} :
                LET res == SweepOne(SweepStart, tx, kind, now) IN
                IF kind = "permanent" /\ PriorAttempts(tx) >= 1
                THEN res.db.txs[tx].processed
                ELSE /\ ~res.db.txs[tx].processed
                     /\ _get_retry_count(res.db.txs[tx].memo) = count + 1


\* ------------------------------------------------------------------------
\* Router: one payment whose memo and amount range over the decision table, a
\* payee with all three templates, an order awaiting payment, and a payer whose
\* next qualifying tip is the fifth
\* ------------------------------------------------------------------------
MemoBauniMixed ==
    <<" ", "M", "e", "m", "b", "e", "r", "s", "h", "i", "p", ":", "b", "a", "u", "n", "i", " ", "x">>
MemoShawtyLower ==
    <<"p", "u", "r", "c", "h", "a", "s", "e", ":", "s", "h", "a", "w", "t", "y", "\n">>
MemoOrderLower == <<"\t", "o", "r", "d", "e", "r", ":", "1", " ", "t", "y">>
MemoOrderNoNumber == MEMO_ORDER_PREFIX \o <<"x">>
MemoOrderUnknown == MEMO_ORDER_PREFIX \o <<"9">>
MemoPrefixInside == <<"x">> \o MEMO_BAUNI_PREFIX

\* each memo with the path the decision table gives it and the order it names
RouterMemos ==
    {[memo |-> MEMO_BAUNI_PREFIX, class |-> "membership", order |-> 0],
     [memo |-> MemoBauniMixed, class |-> "membership", order |-> 0],
     [memo |-> MEMO_SHAWTY_PREFIX, class |-> "token", order |-> 0],
     [memo |-> MemoShawtyLower, class |-> "token", order |-> 0],
     [memo |-> MemoPlain, class |-> "loyalty", order |-> 0],
     [memo |-> <<>>, class |-> "loyalty", order |-> 0],
     [memo |-> MemoPrefixInside, class |-> "loyalty", order |-> 0],
     [memo |-> MemoOrder1, class |-> "loyalty", order |-> 1],
     [memo |-> MemoOrderLower, class |-> "loyalty", order |-> 1],
     [memo |-> MemoOrderNoNumber, class |-> "loyalty", order |-> 0],
     [memo |-> MemoOrderUnknown, class |-> "loyalty", order |-> 9]}

RouterAmounts ==
    {BUTKI_MIN_TIP_MICRO - 1, BUTKI_MIN_TIP_MICRO, SHAWTY_COST_MICRO - 1,
     SHAWTY_COST_MICRO, BAUNI_COST_MICRO - 1, BAUNI_COST_MICRO}

RouterStore ==
    [EmptyDb EXCEPT
        !.contracts = OneContract,
        !.templates = {Template("c1", "bauni_membership"),
                       Template("c1", "shawty_collectible"),
                       Template("c1", "butki_badge")},
        !.txs = [tx \in {"h1", "h2", "h3", "h4"} |->
                    [seq |-> CHOOSE i \in 1..4 : <<"h1", "h2", "h3", "h4">>[i] = tx,
                     fan |-> "f1", creator |-> "c1", app |-> 1,
                     amount |-> BUTKI_MIN_TIP_MICRO, memo |-> MemoPlain,
                     processed |-> TRUE]],
        !.journal = {[tx |-> tx, fan |-> "f1", creator |-> "c1",
                      amount |-> BUTKI_MIN_TIP_MICRO] : tx \in {"h1", "h2", "h3", "h4"}},
        !.loyalty = (<<"f1", "c1">> :>
                        [tip_count |-> 4, total |-> 4 * BUTKI_MIN_TIP_MICRO,
                         badges |-> 0, last_badge |-> 0]),
        !.products = (1 :> [creator |-> "c1", price |-> 2 * BUTKI_MIN_TIP_MICRO, active |-> TRUE,
                            max_per_order |-> 5, tracked |-> TRUE, stock |-> 2]),
        !.orders = (1 :> [fan |-> "f1", creator |-> "c1", status |-> "PENDING_PAYMENT",
                          subtotal |-> 2 * BUTKI_MIN_TIP_MICRO, discount |-> 0,
                          total |-> 2 * BUTKI_MIN_TIP_MICRO, tokens |-> <<>>, tx |-> None,
                          items |-> <<[product |-> 1, quantity |-> 1]>>])]

InitRouter ==
    \E m \in RouterMemos, a \in RouterAmounts :
        InitWith(RouterStore, <<Tip("r1", 1, 5, "f1", a, m.memo)>>)

NextRouter ==
    \/ Start \/ Boot \/ BeginCycle \/ PollSource \/ HandleEvent \/ Commit
    \/ SaveCheckpoint \/ Confirm \/ Sweep

SpecRouter == InitRouter /\ [][NextRouter]_vars

RouterCase == CHOOSE m \in RouterMemos : m.memo = script[1].memo

RouterAmount == script[1].amount

InMembership(d) == \E m \in d.memberships : m.ptx = "r1"
InTokens(d) == \E t \in d.tokens : t.ptx = "r1"
InJournal(d) == \E j \in d.journal : j.tx = "r1"
Settled(d) == d.orders[1].status = "PAID" /\ d.orders[1].tx = "r1"

\* the record's routing returned and was committed
RoutedOk == "r1" \in DOMAIN db.txs /\ db.txs["r1"].processed /\ "r1" \notin sweeps.abandoned

\* C15 Router decision table: the order named by an order memo with a numeric
\* reference is settled by the payment (when it covers the total) and routing
\* goes on; the membership ledger is written only for a membership memo of at
\* least 5,000,000, the token ledger only for a token memo of at least 2,000,000,
\* the loyalty ledger only for any other memo of at least 500,000; a routing that
\* returned has written exactly the ledger the table names, and no store ever
\* holds the event in two of the three ledgers. Prefixes match in any letter
\* case after trimming.
C15_DecisionTable ==
    /\ \A d \in {db, sess} :
        /\ InMembership(d) =>
              RouterCase.class = "membership" /\ RouterAmount >= BAUNI_COST_MICRO
        /\ InTokens(d) => RouterCase.class = "token" /\ RouterAmount >= SHAWTY_COST_MICRO
        /\ InJournal(d) => RouterCase.class = "loyalty" /\ RouterAmount >= BUTKI_MIN_TIP_MICRO
        /\ Settled(d) => RouterCase.order = 1 /\ RouterAmount >= d.orders[1].total
        /\ Cardinality({x \in {1, 2, 3} :
                \/ x = 1 /\ InMembership(d)
                \/ x = 2 /\ InTokens(d)
                \/ x = 3 /\ InJournal(d)}) <= 1
    /\ RoutedOk =>
        /\ InMembership(db) <=>
              (RouterCase.class = "membership" /\ RouterAmount >= BAUNI_COST_MICRO)
        /\ InTokens(db) <=> (RouterCase.class = "token" /\ RouterAmount >= SHAWTY_COST_MICRO)
        /\ InJournal(db) <=>
              (RouterCase.class = "loyalty" /\ RouterAmount >= BUTKI_MIN_TIP_MICRO)
        /\ Settled(db) <=> (RouterCase.order = 1 /\ RouterAmount >= db.orders[1].total)

\* an order payment in lower case with surrounding white space settled its order
\* and was counted as the payer's fifth loyalty tip
C15_Witness ==
    /\ RoutedOk /\ script[1].memo = MemoOrderLower
    /\ Settled(db) /\ InJournal(db)
    /\ db.loyalty[<<"f1", "c1">>].tip_count = 5


Underpaid ==
    \/ RouterCase.class = "membership" /\ RouterAmount < BAUNI_COST_MICRO
    \/ RouterCase.class = "token" /\ RouterAmount < SHAWTY_COST_MICRO

\* C16 No partial credit: a payment with the membership (token) prefix and an
\* amount below the membership (token) price changes no reward ledger, the
\* loyalty ledger included even when the amount reaches the loyalty minimum;
\* nothing is issued for it, its Payment Record is processed as soon as it is
\* recorded, and the sweeper never retries it.
C16_NoPartialCredit ==
    Underpaid =>
        /\ \A d \in {db, sess} :
            /\ Ledger(d) = Ledger(RouterStore)
            /\ "r1" \in DOMAIN d.txs =>
                  d.txs["r1"].processed /\ d.txs["r1"].memo = script[1].memo
        /\ PriorAttempts("r1") = 0
        /\ "r1" \notin sweeps.abandoned
        /\ issued = EmptyFn

\* a membership payment one base unit short, well above the loyalty minimum, has
\* its committed, processed record
C16_Witness ==
    /\ RouterCase.class = "membership" /\ RouterAmount = BAUNI_COST_MICRO - 1
    /\ "r1" \in DOMAIN db.txs /\ db.txs["r1"].processed
    /\ persisted.present


\* ------------------------------------------------------------------------
\* Isolation: two sources; an order payment that is its payer's fifth tip (the
\* badge issue may fail after the order and the loyalty row were written), a
\* plain tip and a membership purchase at the second source
\* ------------------------------------------------------------------------
IsolationScript ==
    <<Tip("i1", 1, 5, "f1", 2 * BUTKI_MIN_TIP_MICRO, MemoOrder1),
      Tip("i2", 1, 6, "f2", BUTKI_MIN_TIP_MICRO, MemoPlain),
      Tip("i3", 2, 7, "f1", BAUNI_COST_MICRO, MEMO_BAUNI_PREFIX)>>

InitIsolation ==
    InitWith([RouterStore EXCEPT
                !.contracts = TwoContracts,
                !.templates = RouterStore.templates \cup {Template("c2", "bauni_membership")}],
             IsolationScript)

NextIsolation ==
    \/ Start \/ Boot \/ BeginCycle \/ PollSource \/ HandleEvent \/ Commit
    \/ SaveCheckpoint \/ Confirm \/ Sweep

SpecIsolation == InitIsolation /\ [][NextIsolation]_vars

\* C17 Per-event failure isolation: when the main loop handles a new event, its
\* Payment Record is added and no other record changes; if routing it raises, the
\* record stays unprocessed, every reward ledger is as it was before the event,
\* the error count does not move and the loop goes on with the next event or
\* source; the commit that ends the cycle stores the session, in which every
\* decodable event the cycle fetched has its record.
C17_FailureIsolation ==
    [][/\ (lpc = "route" /\ ltxns # <<>> /\ ltxns' = Tail(ltxns)) =>
            LET e == Head(ltxns) IN
            (e.decodable /\ e.id \notin DOMAIN sess.txs) =>
                /\ e.id \in DOMAIN sess'.txs
                /\ \A tx \in DOMAIN sess.txs : sess'.txs[tx] = sess.txs[tx]
                /\ (~sess'.txs[e.id].processed => Ledger(sess') = Ledger(sess))
                /\ lpc' \in {"route", "poll", "commit"}
                /\ errors' = errors
       /\ (lpc = "commit" /\ lpc' # "commit") =>
            /\ db' = sess
            /\ \A id \in lseen : EventOf(id).decodable => id \in DOMAIN db'.txs]_vars

\* one cycle fetched all three events; routing the first raised after the order
\* was settled and the tip counted, the two later events (same source and next
\* source) were routed, and the cycle committed
C17_Witness ==
    /\ {"i1", "i2", "i3"} \subseteq DOMAIN db.txs
    /\ lastRound = 7 /\ sweeps.attempts = EmptyFn
    /\ ~db.txs["i1"].processed /\ db.txs["i2"].processed /\ db.txs["i3"].processed
    /\ db.orders[1].status = "PENDING_PAYMENT"
    /\ db.loyalty[<<"f1", "c1">>].tip_count = 4
    /\ \E j \in db.journal : j.tx = "i2"
    /\ \E m \in db.memberships : m.ptx = "i3"


\* ------------------------------------------------------------------------
\* Properties of the loop boundary
\* ------------------------------------------------------------------------
\* C18 A cycle-level error never terminates the loop: a step that counts a cycle
\* error adds exactly one to the count, leaves the loop task alive and the running
\* flag as it is, rolls the session back, and takes the loop to the extended sleep
\* when the count now exceeds the threshold (5) and straight to the next iteration
\* otherwise; the extended sleep is entered by no other step and ends at the next
\* iteration.
C18_CycleErrorContained ==
    [][/\ (errors' # errors /\ restarts' = restarts) =>
            /\ errors' = errors + 1
            /\ ltask = "alive" /\ ltask' = "alive"
            /\ running' = running
            /\ sess' = db' /\ db' = db
            /\ lpc' = IF errors' > ERROR_BACKOFF_THRESHOLD THEN "backoff" ELSE "idle"
       /\ (lpc # "backoff" /\ lpc' = "backoff") => errors' = errors + 1
       /\ (lpc = "backoff" /\ lpc' # "backoff" /\ ltask' = "alive" /\ restarts' = restarts) =>
            lpc' = "idle"]_vars

\* after the sixth failed cycle and its extended sleep the loop polls again
C18_Witness ==
    /\ errors = ERROR_BACKOFF_THRESHOLD + 1
    /\ ltask = "alive" /\ running
    /\ lpc = "poll"
    /\ restarts = 0


\* ------------------------------------------------------------------------
\* Shutdown: membership purchases whose issue can fail, under start() and stop()
\* ------------------------------------------------------------------------
NextShutdown ==
    \/ Start \/ Stop \/ StopReturn \/ Boot \/ BeginCycle \/ PollSource \/ HandleEvent
    \/ Commit \/ SaveCheckpoint \/ Confirm \/ Sweep

SpecShutdown == InitRetry /\ [][NextShutdown]_vars

NextIssuance ==
    \/ Start \/ Boot \/ BeginCycle \/ PollSource \/ AwaitIssuance \/ HandleEvent
    \/ Commit \/ SaveCheckpoint \/ Confirm \/ Sweep

SpecIssuance == InitRetry /\ [][NextIssuance]_vars

\* C11 A slow issuance never delays event detection: while the issuance request
\* for one event is in flight, the loop can begin its next poll cycle or query a
\* source for newly confirmed events.
C11_PollWhileIssuing ==
    lpc = "minting" => ENABLED (BeginCycle \/ PollSource)


\* ------------------------------------------------------------------------
\* Discounts: a product, a rule that takes 1 ALGO off for one utility token, a
\* fan who owns one token, orders created on request and a payment for each
\* ------------------------------------------------------------------------
MemoOrder2 == MEMO_ORDER_PREFIX \o <<"2">>

DiscountStore ==
    [EmptyDb EXCEPT
        !.contracts = OneContract,
        !.products = (1 :> [creator |-> "c1", price |-> 4000000, active |-> TRUE,
                            max_per_order |-> 5, tracked |-> TRUE, stock |-> 5]),
        !.rules = {[creator |-> "c1", kind |-> "FIXED_ALGO", value |-> 1000000,
                    min_shawty_tokens |-> 1, requires_bauni |-> FALSE, active |-> TRUE]},
        !.tokens = {[asset |-> 7, owner |-> "f1", creator |-> "c1", ptx |-> "s0",
                     burned |-> FALSE, locked |-> FALSE]}]

DiscountScript ==
    <<Tip("p1", 1, 1, "f1", 3000000, MemoOrder1),
      Tip("p2", 1, 2, "f1", 3000000, MemoOrder2)>>

InitDiscount == InitWith(DiscountStore, DiscountScript)

NextDiscount ==
    \/ Start \/ Boot \/ BeginCycle \/ PollSource \/ HandleEvent \/ Commit
    \/ SaveCheckpoint \/ Confirm \/ QuoteOrderApi \/ CreateOrderApi

SpecDiscount == InitDiscount /\ [][NextDiscount]_vars

\* the orders that were settled at a total reduced by a discount that listed asset
PaidWithDiscount(d, asset) ==
    {o \in DOMAIN d.orders :
        /\ d.orders[o].status = "PAID" /\ d.orders[o].discount > 0
        /\ \E k \in DOMAIN d.orders[o].tokens : d.orders[o].tokens[k] = asset}

\* C13 A utility token used for a discount cannot be reused: whatever the order of
\* quotes, order creations and settlements, at most one order whose discount
\* listed a given token is PAID with that discount.
C13_DiscountTokenUsedOnce ==
    \A t \in db.tokens : Cardinality(PaidWithDiscount(db, t.asset)) <= 1


\* ------------------------------------------------------------------------
\* Tokens: the order of the rewards store is paid (its settlement locks token 7)
\* while requests to burn, lock or transfer that token arrive
\* ------------------------------------------------------------------------
InitTokens == InitWith(RewardsStore, <<Tip("o1", 1, 1, "f1", 3000000, MemoOrder1)>>)

NextTokens ==
    \/ Start \/ Boot \/ BeginCycle \/ PollSource \/ HandleEvent \/ Commit
    \/ SaveCheckpoint \/ Confirm \/ TokenRequestRead \/ TokenRequestCommit

SpecTokens == InitTokens /\ [][NextTokens]_vars

\* C14 Utility-token end states: no token is both burned and locked;
\* burn_for_merch and lock_for_discount succeed only on a token that is unburned,
\* unlocked and owned by the caller; on a token that is burned or locked none of
\* burn_for_merch, lock_for_discount and transfer_ownership succeeds or changes
\* a token row.
C14_TokenEndStates ==
    \A t \in db.tokens :
        /\ ~(t.burned /\ t.locked)
        /\ \A fan \in {"f1", "f2"} :
            /\ burn_for_merch(db, t.asset, fan).success
                  => ~t.burned /\ ~t.locked /\ t.owner = fan
            /\ lock_for_discount(db, t.asset, fan).success
                  => ~t.burned /\ ~t.locked /\ t.owner = fan
            /\ (t.burned \/ t.locked) =>
                  \A r \in TokenRequests :
                      ~TokenOp(db, r).success /\ TokenOp(db, r).db.tokens = db.tokens


\* ------------------------------------------------------------------------
\* Ledger query client: one call of _query_indexer, request by request
\* ------------------------------------------------------------------------
\* fetch.pc       "request" | "sleep" | "returned"
\* fetch.attempt  the loop variable attempt
\* fetch.all      len(all_transactions)
\* fetch.token    next_token is set
\* fetch.offset   how many matching transactions the pages so far have covered
\* fetch.last     size of the last page received in this attempt (-1: none yet)
\* fetch.slept    the delays slept so far, in seconds
\* fetch.retried  the failures that were followed by a retry
\* fetch.failure  the failure that ended the call ("none": no failure ended it)
\* fetch.result   length of the list the call returned
\* fetch.total, fetch.page   what the indexer holds for the query, its page size
max_retries == 4
base_delay == 2

\* most transactions the indexer holds for one query
MaxTotal == 4

\* what a request can fail with: httpx.TimeoutException (ReadTimeout included),
\* httpx.ConnectError or ConnectionError, an HTTP 502/503 answer
\* (raise_for_status), anything else (another status, a body that is not JSON)
FailureKinds == {"timeout", "connect", "unavailable", "other"}

\* a handler that retries whatever the failure
AnyFailureTransient(kind) == TRUE

\* is_transient: by the exception's type
IsTransientFailure(kind) == kind \in {"timeout", "connect"}

\* delay = base_delay * (2**attempt)
RetryDelay(attempt) == base_delay * (2 ^ attempt)

Calling(total, page) ==
    [pc |-> "request", attempt |-> 0, all |-> 0, token |-> FALSE, offset |-> 0,
     last |-> -1, slept |-> <<>>, retried |-> <<>>, failure |-> "none", result |-> 0,
     total |-> total, page |-> page]

\* one page arrives: extend the list, take the next-token, stop or go on
FetchPage ==
    /\ fetch.pc = "request"
    /\ LET left == fetch.total - fetch.offset
           n == IF left < fetch.page THEN left ELSE fetch.page
           all == fetch.all + n
       IN \E token \in (IF fetch.offset + n < fetch.total THEN {TRUE} ELSE BOOLEAN) :
            LET stop == ~token \/ n = 0 \/ all >= PaginationCap IN
            fetch' = [fetch EXCEPT !.all = all, !.offset = @ + n, !.token = token,
                                   !.last = n,
                                   !.pc = IF stop THEN "returned" ELSE "request",
                                   !.result = IF stop THEN all ELSE @]
    /\ UNCHANGED <<db, persisted, sess, chain, script, now, nextAsset, issued, running,
                   lastRound, errors, ltask, rtasks, lpc, cycleVars, restarts, sweeps,
                   aborted, decVars, reqs>>

\* a request raises: "except Exception"
FetchFail ==
    /\ fetch.pc = "request"
    /\ \E kind \in FailureKinds :
        fetch' = IF fetch.attempt < max_retries - 1 /\ IsTransientFailure(kind)
                 THEN [fetch EXCEPT !.pc = "sleep",
                                    !.slept = Append(@, RetryDelay(fetch.attempt)),
                                    !.retried = Append(@, kind)]
                 ELSE [fetch EXCEPT !.pc = "returned", !.result = fetch.all,
                                    !.failure = kind]
    /\ UNCHANGED <<db, persisted, sess, chain, script, now, nextAsset, issued, running,
                   lastRound, errors, ltask, rtasks, lpc, cycleVars, restarts, sweeps,
                   aborted, decVars, reqs>>

\* the sleep is over: reset the list and the token, next attempt
FetchWake ==
    /\ fetch.pc = "sleep"
    /\ fetch' = [fetch EXCEPT !.pc = "request", !.attempt = @ + 1, !.all = 0,
                              !.token = FALSE, !.offset = 0, !.last = -1]
    /\ UNCHANGED <<db, persisted, sess, chain, script, now, nextAsset, issued, running,
                   lastRound, errors, ltask, rtasks, lpc, cycleVars, restarts, sweeps,
                   aborted, decVars, reqs>>

InitFetch ==
    /\ db = EmptyDb
    /\ persisted = [present |-> FALSE, round |-> 0]
    /\ sess = EmptyDb /\ chain = <<>> /\ script = <<>> /\ now = 0 /\ nextAsset = 1
    /\ issued = EmptyFn /\ running = FALSE /\ lastRound = 0 /\ errors = 0
    /\ ltask = "none" /\ rtasks = 0 /\ lpc = "none" /\ lsrc = 0 /\ ltxns = <<>>
    /\ lmax = 0 /\ lseen = {} /\ restarts = 0
    /\ sweeps = [attempts |-> EmptyFn, abandoned |-> {}, cycle |-> 0] /\ aborted = {}
    /\ sent = [kind |-> "nolog"] /\ raw = [logs |-> <<>>] /\ parsed = [called |-> FALSE]
    /\ reqs = {}
    /\ fetch \in {Calling(total, page) : total \in 0..MaxTotal, page \in 1..MaxPage}

NextFetch == FetchPage \/ FetchFail \/ FetchWake

\* every request is answered or times out (timeout=15.0), every sleep ends
SpecFetch == InitFetch /\ [][NextFetch]_vars /\ WF_vars(NextFetch)

\* the delays of the first n retries
Backoffs(n) == [i \in 1..n |-> 2 ^ i]

FetchAsStated ==
    \* at most 4 attempts, the k-th retry after 2, 4, 8 seconds
    /\ fetch.attempt + 1 <= 4
    /\ Len(fetch.slept) <= 3
    /\ fetch.slept = Backoffs(Len(fetch.slept))
    /\ Len(fetch.slept) = fetch.attempt + (IF fetch.pc = "sleep" THEN 1 ELSE 0)
    \* retries only on transient failures, and on those of the code's classes always
    \* while attempts are left
    /\ \A i \in DOMAIN fetch.retried :
          fetch.retried[i] \in {"timeout", "connect", "unavailable"}
    /\ fetch.failure \in {"timeout", "connect"} => fetch.attempt + 1 = 4
    \* a failure that is not retried returns what this attempt has collected
    /\ fetch.pc = "returned" => fetch.result = fetch.all
    /\ fetch.pc \in {"request", "sleep", "returned"}
    \* pages are followed while the token is present, the page is not empty and
    \* fewer than the cap have been collected, and no further
    /\ fetch.pc = "request" /\ fetch.last >= 0
          => fetch.token /\ fetch.last > 0 /\ fetch.all < PaginationCap
    /\ fetch.pc = "returned" /\ fetch.failure = "none"
          => /\ ~fetch.token \/ fetch.last = 0 \/ fetch.all >= PaginationCap
             /\ fetch.result = CollectedLen(fetch.total, fetch.page)

C21_RecordLifecycle ==
    [][\A tx \in DOMAIN db.txs :
          /\ tx \in DOMAIN db'.txs
          /\ db'.txs[tx].fan = db.txs[tx].fan
          /\ db'.txs[tx].creator = db.txs[tx].creator
          /\ db'.txs[tx].amount = db.txs[tx].amount
          /\ db'.txs[tx].memo = db.txs[tx].memo
          /\ db.txs[tx].processed => db'.txs[tx].processed]_vars


\* ------------------------------------------------------------------------
\* Inventory: one unit of the product in stock, orders created on request and a
\* full-price payment for each
\* ------------------------------------------------------------------------
InventoryStore == [DiscountStore EXCEPT !.products[1].stock = 1]

InventoryScript ==
    <<Tip("p1", 1, 1, "f1", 4000000, MemoOrder1),
      Tip("p2", 1, 2, "f1", 4000000, MemoOrder2)>>

InitInventory == InitWith(InventoryStore, InventoryScript)

NextInventory ==
    \/ Start \/ Boot \/ BeginCycle \/ PollSource \/ HandleEvent \/ Commit
    \/ SaveCheckpoint \/ Confirm \/ QuoteOrderApi \/ CreateOrderApi

SpecInventory == InitInventory /\ [][NextInventory]_vars

\* units of product p in the items of one order
RECURSIVE ItemsQty(_, _)
ItemsQty(items, p) ==
    IF items = <<>> THEN 0
    ELSE (IF Head(items).product = p THEN Head(items).quantity ELSE 0)
         + ItemsQty(Tail(items), p)

\* units of product p in the settled orders among orders 1..n
RECURSIVE PaidQty(_, _, _)
PaidQty(d, p, n) ==
    IF n = 0 THEN 0
    ELSE (IF d.orders[n].status = "PAID" THEN ItemsQty(d.orders[n].items, p) ELSE 0)
         + PaidQty(d, p, n - 1)

\* C22 Settlement adjusts inventory: every settled order has reduced the stock of
\* each stock-tracked product by exactly the ordered quantity, however many
\* pending orders were quoted against the same stock and in whatever order they
\* are settled: the stock is the initial stock less the units of the settled orders.
C22_SettlementAdjustsStock ==
    \A p \in DOMAIN db.products :
        db.products[p].tracked =>
            db.products[p].stock
                = InventoryStore.products[p].stock
                  - PaidQty(db, p, Cardinality(DOMAIN db.orders))


\* ------------------------------------------------------------------------
\* Purchase after expiry
\* ------------------------------------------------------------------------
MembershipsOf(d, pair) == {m \in d.memberships : m.fan = pair[1] /\ m.creator = pair[2]}

\* C23 Purchase after expiry: for a pair whose memberships have all expired, whether
\* or not the cleanup has deactivated them and however many they are,
\* purchase_membership succeeds, creates an active membership that expires at
\* now + 30 days and leaves every earlier membership of the pair deactivated.
C23_PurchaseAfterExpiry ==
    \A pair \in Pairs(db) :
        (\A m \in MembershipsOf(db, pair) : m.expires_at <= now) =>
            LET r == purchase_membership(db, pair[1], pair[2], nextAsset, "probe", now)
            IN /\ ~r.bad
               /\ \E n \in ActiveOf(r.db, pair) :
                    n.expires_at = now + BAUNI_VALIDITY_DAYS /\ n.ptx = "probe"
               /\ \A m \in MembershipsOf(r.db, pair) : m.ptx # "probe" => ~m.active


\* ------------------------------------------------------------------------
\* Loyalty counters against the idempotency journal
\* ------------------------------------------------------------------------
JournalOf(d, pair) == {j \in d.journal : j.fan = pair[1] /\ j.creator = pair[2]}

RECURSIVE SumAmounts(_)
SumAmounts(rows) ==
    IF rows = {} THEN 0
    ELSE LET j == CHOOSE j \in rows : TRUE IN j.amount + SumAmounts(rows \ {j})

C25_RetryCountIsAttempts ==
    \A tx \in Unprocessed(db) :
        _get_retry_count(db.txs[tx].memo) = PriorAttempts(tx)


\* ------------------------------------------------------------------------
\* Routing of a retried record against routing of the event as delivered
\* ------------------------------------------------------------------------
\* the record of tx as the loop inserted it
AsDelivered(d, tx) == [TxRecord(d, tx) EXCEPT !.memo = EventOf(tx).memo]

\* C26 Retry bookkeeping does not change routing: for every Payment Record the
\* sweeper may retry, the router reads the same order reference from its memo as
\* from the memo the event was delivered with, and gives the same result for
\* every answer of the issuance service.
C26_RetryRoutesAsDelivered ==
    \A tx \in Unprocessed(db) :
        /\ LET m == Upper(Strip(db.txs[tx].memo))
               m0 == Upper(Strip(EventOf(tx).memo))
           IN /\ StartsWith(m, MEMO_ORDER_PREFIX) = StartsWith(m0, MEMO_ORDER_PREFIX)
              /\ StartsWith(m0, MEMO_ORDER_PREFIX) => ParseOrderId(m) = ParseOrderId(m0)
        /\ \A ext \in OkExts(nextAsset) \cup FailExts :
              route_tip(db, TxRecord(db, tx), now, ext)
                  = route_tip(db, AsDelivered(db, tx), now, ext)


\* ------------------------------------------------------------------------
\* Processed by a successful routing against the badges issued
\* ------------------------------------------------------------------------
BadgeAssets(d, fan) == {n \in d.nfts : n.owner = fan /\ n.cls = "butki"}

\* the journalled tips of the pair have all been marked processed by a routing
\* that returned
AllRoutedOk(d, pair) ==
    \A j \in JournalOf(d, pair) : d.txs[j.tx].processed /\ j.tx \notin sweeps.abandoned

\* C27 Processed by success implies reward applied: when every journalled tip of
\* a pair was marked processed by a successful routing (main loop or sweeper
\* retry, not abandonment) and the payee has a badge template, a badge has been
\* issued for every crossing of a multiple of 5 by the pair's tip_count.
C27_ProcessedImpliesBadge ==
    \A pair \in DOMAIN db.loyalty :
        AllRoutedOk(db, pair) /\ HasTemplate(db, pair[2], "butki_badge") =>
            Cardinality(BadgeAssets(db, pair[1]))
                >= db.loyalty[pair].tip_count \div BUTKI_BADGE_INTERVAL


\* ------------------------------------------------------------------------
\* Issues per payment event
\* ------------------------------------------------------------------------
\* C28 No double issuance: for every payment event the issuance service's issue
\* succeeds at most once, over the main loop's routing of the event, the
\* sweeper's retries of it and its re-processing after a failed or cancelled
\* cycle.
C28_IssuedAtMostOnce ==
    \A e \in DOMAIN issued : issued[e] <= 1


\* ------------------------------------------------------------------------
\* Background tasks: start(), stop() and a loop task that ends at its head
\* ------------------------------------------------------------------------
NextTasks ==
    \/ Start \/ Stop \/ StopReturn \/ Boot \/ BootFails \/ BeginCycle \/ PollSource
    \/ HandleEvent \/ Commit \/ SaveCheckpoint \/ Confirm \/ Sweep

SpecTasks == InitRetry /\ [][NextTasks]_vars

\* C29 Single pair of background tasks: for any sequence of start() and stop()
\* calls and task failures, at most one retry task is alive (the loop task is one
\* at most), and no step taken while the pipeline is running adds a task.
C29_SinglePairOfTasks ==
    [][/\ rtasks' <= 1
       /\ running /\ lpc # "stopping" => rtasks' <= rtasks]_vars


\* ------------------------------------------------------------------------
\* Recovery: the pipeline keeps running, the retry task is scheduled again and
\* again, every commit is accepted
\* ------------------------------------------------------------------------
\* the store after the purchase m1 and the renewal m2 have been routed
RenewedStore ==
    [EmptyDb EXCEPT
        !.contracts = OneContract,
        !.templates = {Template("c1", "bauni_membership")},
        !.txs = [tx \in {"m1", "m2"} |->
                    [fan |-> "f1", creator |-> "c1", amount |-> BAUNI_COST_MICRO,
                     memo |-> MEMO_BAUNI_PREFIX, app |-> 1,
                     seq |-> IF tx = "m1" THEN 1 ELSE 2, processed |-> TRUE]],
        !.memberships =
            {[fan |-> "f1", creator |-> "c1", active |-> FALSE, asset |-> 1, id |-> 1,
              expires_at |-> BAUNI_VALIDITY_DAYS, ptx |-> "m1"],
             [fan |-> "f1", creator |-> "c1", active |-> TRUE, asset |-> 2, id |-> 2,
              expires_at |-> 2 * BAUNI_VALIDITY_DAYS, ptx |-> "m2"]},
        !.nfts = {[asset |-> a, owner |-> "f1", cls |-> "bauni", delivery |-> "delivered"] :
                     a \in {1, 2}}]

\* the pipeline between two cycles, m1 and m2 confirmed, routed and behind the
\* checkpoint, m3 not yet confirmed
RenewedTwice ==
    /\ db = RenewedStore /\ sess = RenewedStore
    /\ persisted = [present |-> TRUE, round |-> 2] /\ lastRound = 2
    /\ chain = SubSeq(MembershipScript, 1, 2) /\ script = MembershipScript
    /\ now = 0 /\ nextAsset = 3 /\ issued = ("m1" :> 1) @@ ("m2" :> 1)
    /\ running = TRUE /\ ltask = "alive" /\ rtasks = 1 /\ lpc = "idle"
    /\ errors = 0 /\ lsrc = 0 /\ ltxns = <<>> /\ lmax = 0 /\ lseen = {}
    /\ restarts = 0
    /\ sweeps = [attempts |-> EmptyFn, abandoned |-> {}, cycle |-> 0] /\ aborted = {}
    /\ raw = [logs |-> <<>>] /\ parsed = [called |-> FALSE] /\ sent = [kind |-> "nolog"]
    /\ reqs = {} /\ fetch = NoFetch

InitRecovery == RenewedTwice

NextRecovery ==
    \/ BeginCycle \/ PollSource \/ HandleEvent \/ Commit \/ SaveCheckpoint
    \/ Confirm \/ SweepOn

\* the loop task takes its next step; the retry task's sleep ends again and again,
\* whatever the loop task does in between
LoopRuns ==
    BeginCycle \/ PollSource \/ HandleEvent \/ Commit \/ SaveCheckpoint

\* the retry task has records to select and is not kept waiting by a cycle
SweepDue ==
    /\ rtasks > 0 /\ running /\ lpc \in {"boot", "idle", "backoff"}
    /\ RetryBatch(db) # <<>>

SpecRecovery ==
    /\ InitRecovery /\ [][NextRecovery]_vars
    /\ WF_vars(LoopRuns)
    /\ []<>SweepDue => []<><<SweepOn>>_vars

RecoveryIds == {MembershipScript[i].id : i \in DOMAIN MembershipScript}

\* C30 Bounded recovery: while the pipeline keeps running and the store accepts
\* commits, every committed Payment Record eventually has processed = true, by a
\* successful routing or by abandonment.
C30_BoundedRecovery ==
    \A tx \in RecoveryIds :
        (tx \in DOMAIN db.txs) ~> (tx \in DOMAIN db.txs /\ db.txs[tx].processed)

====
